---- MODULE Spec2Model ----
(***************************************************************************)
(* Model of scripts/sync-github.ts (src/unnamed/part_003): the GitHub sync *)
(* script of the project catalog.                                          *)
(*                                                                         *)
(*   SpecFetch  one githubFetch call, request by request                   *)
(*   SpecRepo   main() over a one-entry catalog, every response shape      *)
(*   Spec       main() over the whole catalog behind pLimit                *)
(*   SpecLive   Spec, every pending step eventually taken                  *)
(*   SpecRepoLive  SpecRepo, every pending step eventually taken           *)
(*   SpecSlugs  main() over three-entry catalogs of look-alike names       *)
(***************************************************************************)
EXTENDS Integers, Sequences, FiniteSets, TLC

VARIABLES
    gf,             \* the githubFetch call under study (SpecFetch)
    repos,          \* repos.config: the catalog, a sequence of RepoConfig
    net,            \* the remote of this run: the response shapes it answers with
    cache,          \* .cache/repos/<owner>/<repo>.json, per catalog entry
    task,           \* per catalog entry: the fetchRepo invocation
    queue,          \* pLimit: entries enqueued and not yet started
    activeCount,    \* pLimit: activeCount
    successCount,
    failCount,
    cacheHitCount,
    mainPc,         \* position of main()
    disk,           \* src/content/projects and the files of src/generated
    run,            \* the local variables of main() and the exit status
    env,            \* process.env: GITHUB_TOKEN set or not
    call            \* the call of a pure function under study (SpecTags, SpecReadme)

vars == <<gf, repos, net, cache, task, queue, activeCount,
          successCount, failCount, cacheHitCount, mainPc, disk, run, env, call>>

\* The variables of the program, which a pure function leaves alone
programVars == <<gf, repos, net, cache, task, queue, activeCount,
                 successCount, failCount, cacheHitCount, mainPc, disk, run, env>>

mainVars == <<repos, net, cache, task, queue, activeCount,
              successCount, failCount, cacheHitCount, mainPc, disk, run, env, call>>

\* ------------------------------------------------------------------------
\* Program constants

CONCURRENCY_LIMIT == 4
MAX_RETRIES == 3
INITIAL_RETRY_DELAY_MS == 1000

\* ------------------------------------------------------------------------
\* Bounds of the model

NumRepos == 5       \* catalog size of Spec

\* ------------------------------------------------------------------------
\* Values

Null == "null"              \* JS null, where the other values are strings
NullObject == [null |-> TRUE]   \* JS null, where the other values are objects
NoError == <<>>             \* no Error object: a message has parts
Undefined == "undefined"    \* JS undefined / a header that is absent

\* ------------------------------------------------------------------------
\* The output files and the locals of main().

\* A file of src/generated: absent, or holding the JSON value written.
\* generatedAt tells the file a previous run left from the one this run wrote.
NoFile == [state |-> "absent"]

\* src/generated and src/content/projects with nothing in them
EmptyDisk ==
    [content |-> {}, index |-> NoFile, profile |-> NoFile, contributions |-> NoFile]

\* main() before Promise.all has resolved; exitCode -1: the process runs.
\* number counts the runs of the script over the same working directory and
\* previous holds what is remembered of the invocations of the run before.
\* profileOutcome is what the githubFetch call of fetchProfileReadme came to
\* ("data", "nodata" or "throw"), graphqlAnswer what the GraphQL endpoint
\* answered, graphqlRequests the requests sent to it.
RunIdle ==
    [successfulResults |-> <<>>, allTags |-> <<>>, written |-> 0,
     profileOutcome |-> "none", profile |-> NullObject,
     graphqlAnswer |-> [kind |-> "none"], contributions |-> NullObject,
     graphqlRequests |-> 0, exitCode |-> -1, number |-> 1, previous |-> <<>>]

\* GITHUB_TOKEN set
PlainEnv == [token |-> TRUE]

\* No pure function is under study.
NoCall == [pc |-> "none"]

\* ------------------------------------------------------------------------
\* Strings are sequences of one-character strings.  CodeUnit is the UTF-16
\* code unit, which Array.prototype.sort() and the regular expressions read.

CodeUnit(c) ==
    CASE c = " " -> 32  [] c = "-" -> 45  [] c = "." -> 46
      [] c = "0" -> 48  [] c = "1" -> 49  [] c = "2" -> 50
      [] c = "A" -> 65  [] c = "B" -> 66  [] c = "R" -> 82
      [] c = "_" -> 95
      [] c = "a" -> 97  [] c = "b" -> 98  [] c = "c" -> 99
      [] c = "o" -> 111 [] c = "r" -> 114 [] c = "t" -> 116

ToLowerChar(c) ==
    CASE c = "A" -> "a" [] c = "B" -> "b" [] c = "R" -> "r" [] OTHER -> c

IsSpace(c) == c = " "

\* [a-z0-9-]
IsSlugChar(c) ==
    \/ (CodeUnit(c) >= 97 /\ CodeUnit(c) <= 122)
    \/ (CodeUnit(c) >= 48 /\ CodeUnit(c) <= 57)
    \/ c = "-"

toLowerCase(str) == [k \in 1..Len(str) |-> ToLowerChar(str[k])]

RECURSIVE TrimStart(_)
TrimStart(str) ==
    IF str # <<>> /\ IsSpace(Head(str)) THEN TrimStart(Tail(str)) ELSE str

RECURSIVE TrimEnd(_)
TrimEnd(str) ==
    IF str # <<>> /\ IsSpace(str[Len(str)])
    THEN TrimEnd(SubSeq(str, 1, Len(str) - 1))
    ELSE str

trim(str) == TrimEnd(TrimStart(str))

\* .replace(/[^a-z0-9-]/g, "-")
HyphenateChar(c) == IF IsSlugChar(c) THEN c ELSE "-"

ReplaceNonSlug(str) == [k \in 1..Len(str) |-> HyphenateChar(str[k])]

\* .replace(/-+/g, "-")
RECURSIVE CollapseHyphens(_)
CollapseHyphens(str) ==
    IF Len(str) < 2 THEN str
    ELSE IF str[1] = "-" /\ str[2] = "-" THEN CollapseHyphens(Tail(str))
    ELSE <<str[1]>> \o CollapseHyphens(Tail(str))

\* .replace(/^-|-$/g, ""): one hyphen off the start, one off the end
StripEdgeHyphens(str) ==
    LET s1 == IF str # <<>> /\ Head(str) = "-" THEN Tail(str) ELSE str
    IN  IF s1 # <<>> /\ s1[Len(s1)] = "-" THEN SubSeq(s1, 1, Len(s1) - 1) ELSE s1

\* The default comparison of sort(): by code units, a prefix first.
RECURSIVE StrLess(_, _)
StrLess(a, b) ==
    IF b = <<>> THEN FALSE
    ELSE IF a = <<>> THEN TRUE
    ELSE IF CodeUnit(Head(a)) # CodeUnit(Head(b))
         THEN CodeUnit(Head(a)) < CodeUnit(Head(b))
    ELSE StrLess(Tail(a), Tail(b))

\* [...new Set(list)]: first occurrences, in order
RECURSIVE Dedupe(_)
Dedupe(list) ==
    IF list = <<>> THEN <<>>
    ELSE LET init == Dedupe(SubSeq(list, 1, Len(list) - 1))
             x == list[Len(list)]
         IN  IF \E k \in DOMAIN init : init[k] = x THEN init ELSE Append(init, x)

\* .filter(Boolean) on strings: the empty string goes
RECURSIVE FilterNonEmpty(_)
FilterNonEmpty(list) ==
    IF list = <<>> THEN <<>>
    ELSE IF Head(list) = <<>> THEN FilterNonEmpty(Tail(list))
    ELSE <<Head(list)>> \o FilterNonEmpty(Tail(list))

RECURSIVE InsertSorted(_, _)
InsertSorted(x, sorted) ==
    IF sorted = <<>> THEN <<x>>
    ELSE IF StrLess(x, Head(sorted)) THEN <<x>> \o sorted
    ELSE <<Head(sorted)>> \o InsertSorted(x, Tail(sorted))

\* .sort() of strings (stable; equal strings are indistinguishable)
RECURSIVE SortStrings(_)
SortStrings(list) ==
    IF list = <<>> THEN <<>>
    ELSE InsertSorted(list[Len(list)], SortStrings(SubSeq(list, 1, Len(list) - 1)))

NormalizeTagStripFirst(tag) ==
    CollapseHyphens(StripEdgeHyphens(ReplaceNonSlug(trim(toLowerCase(tag)))))

NormalizeTag(tag) ==
    StripEdgeHyphens(CollapseHyphens(ReplaceNonSlug(trim(toLowerCase(tag)))))

normalizeTagsUnsorted(topics, customTags) ==
    LET allTags == topics \o customTags
        normalized == [k \in 1..Len(allTags) |-> NormalizeTag(allTags[k])]
    IN  FilterNonEmpty(Dedupe(normalized))

normalizeTags(topics, customTags) ==
    LET allTags == topics \o customTags
        normalized == [k \in 1..Len(allTags) |-> NormalizeTag(allTags[k])]
    IN  SortStrings(FilterNonEmpty(Dedupe(normalized)))

createSlugWithoutReplace(owner, repo) == toLowerCase(owner \o <<"-">> \o repo)

createSlug(owner, repo) == ReplaceNonSlug(toLowerCase(owner \o <<"-">> \o repo))

\* ------------------------------------------------------------------------
\* HTTP responses.  status 0 stands for fetch() itself rejecting (a network
\* exception); statusText then holds the exception's message.  body is what
\* response.json() meets: "P1", "P2" (two JSON objects), "jsonNull" (the JSON
\* text null), "garbage" and "Rate limit exceeded" (no JSON: json() throws,
\* and for the second, a plain text, the message quotes the body) or "none".
\* etag, remaining and reset are the ETag, X-RateLimit-Remaining and
\* X-RateLimit-Reset headers.

Resp(st, rem, rst, txt, bd, et) ==
    [status |-> st, remaining |-> rem, reset |-> rst, statusText |-> txt,
     body |-> bd, etag |-> et]

OkResponses ==
    { Resp(200, "17", "1700", "OK", "P1", "e1"),
      Resp(200, "0", "1700", "OK", "P2", Undefined),
      Resp(200, "17", "1700", "OK", "P2", "e2"),
      Resp(200, "17", "1700", "OK", "jsonNull", "e1"),
      Resp(200, "17", "1700", "OK", "garbage", "e1"),
      Resp(200, "17", "1700", "OK", "Rate limit exceeded", "e1") }

ErrResponses ==
    { Resp(304, "17", "1700", "Not Modified", "none", Undefined),
      Resp(404, "17", "1700", "Not Found", "P1", Undefined),
      Resp(404, "0", "1700", "Not Found", "P1", Undefined),
      Resp(403, "0", "1700", "Forbidden", "P1", Undefined),
      Resp(403, "0", Undefined, "Forbidden", "P1", Undefined),
      Resp(403, "17", "1700", "Forbidden", "P1", Undefined),
      Resp(403, Undefined, Undefined, "Forbidden", "P1", Undefined),
      Resp(500, "17", "1700", "Internal Server Error", "none", Undefined),
      Resp(502, Undefined, Undefined, "", "none", Undefined),
      Resp(500, "17", "1700", "Not found", "none", Undefined),
      Resp(429, "17", "1700", "Rate limit exceeded", "none", Undefined),
      Resp(0, Undefined, Undefined, "fetch failed", "none", Undefined),
      Resp(0, Undefined, Undefined, "Not found", "none", Undefined) }

Responses == OkResponses \cup ErrResponses

\* The responses of a run of the whole catalog.
RespOk == Resp(200, "17", "1700", "OK", "P1", "e1")

Resp304 == Resp(304, "17", "1700", "Not Modified", "none", Undefined)

Resp404 == Resp(404, "17", "1700", "Not Found", "P1", Undefined)

LeanResponses == {RespOk, Resp304, Resp404}

\* The remote of a run.  The remote "any" answers any request with any of
\* Responses.  The remote "lean" answers a metadata request with any of
\* LeanResponses, keeping 304 for the requests that carry If-None-Match; what
\* it answers on the topics and readme endpoints is a property of the
\* repository: the topics of the entries 2, 6, 10, ... are not found, and the
\* entries 3, 6, 9, ... have no readme.
AnyRemote == "any"

LeanRemote == "lean"

LeanTopicsResponse(k) == IF k % 4 = 2 THEN Resp404 ELSE RespOk

LeanReadmeResponse(k) == IF k % 3 = 0 THEN Resp404 ELSE RespOk

\* ------------------------------------------------------------------------
\* Error messages.  A message is a sequence of parts; String.includes is
\* decided part by part from the text each part holds.

Fragments(part) ==
    CASE part = "Rate limit exceeded" -> {"Rate limit"}
      [] part = "Not found: " -> {"Not found"}
      [] part = "Not found" -> {"Not found"}
      [] OTHER -> {}

includesAsEquality(message, needle) ==
    \E k \in DOMAIN message : message[k] = needle

includes(message, needle) ==
    \E k \in DOMAIN message : needle \in Fragments(message[k])

ErrRateLimit == <<"Rate limit exceeded">>
ErrNotFound == <<"Not found: ", "endpoint">>
ErrHttp(r) == <<"HTTP", ToString(r.status), r.statusText>>
ErrThrown(r) == <<r.statusText>>
ErrParse(body) ==
    IF body = "garbage" THEN <<"JSON Parse error">>
    ELSE <<"Unexpected token", body, "is not valid JSON">>

\* ------------------------------------------------------------------------
\* githubFetch: one call, as the positions between its awaits.
\*   pc          "idle" | "fetching" (await fetch) | "sleeping" (await sleep)
\*               | "returned" | "thrown"
\*   ifNoneMatch the If-None-Match header sent (options.etag)
\*   attempt     the loop variable
\*   requests    fetch() calls issued so far
\*   delays      the sleep() delays taken so far, in order
\*   log         the responses received so far, in order
\*   lastError, error (the one thrown), result (the one returned)

GfIdle ==
    [pc |-> "idle", ifNoneMatch |-> Undefined, attempt |-> 0, requests |-> 0,
     delays |-> <<>>, log |-> <<>>, console |-> <<>>, lastError |-> NoError,
     error |-> NoError, result |-> NullObject]

LoopCondOffByOne(attempt) == attempt <= MAX_RETRIES

LoopCond(attempt) == attempt < MAX_RETRIES

ShouldBackoff(attempt) == attempt < MAX_RETRIES - 1

BackoffDelayFlat(attempt) == INITIAL_RETRY_DELAY_MS

BackoffDelay(attempt) == INITIAL_RETRY_DELAY_MS * (2 ^ attempt)

IsRateLimited(r) == r.status = 403 /\ r.remaining = "0"

\* parseInt of a header value: NaN is -1
ParseInt(str) == CASE str = "1700" -> 1700 [] OTHER -> -1

ResetDateAlwaysNow(r) == [now |-> TRUE]

\* resetDate: the X-RateLimit-Reset header as a date (in ms), or the
\* current time when there is no such header
ResetDate(r) ==
    IF r.reset \in {Undefined, ""} THEN [now |-> TRUE]
    ELSE [ms |-> ParseInt(r.reset) * 1000]

ResponseOk(r) == r.status >= 200 /\ r.status <= 299

\* response.json() throws
JsonThrows(body) == body \in {"garbage", "Rate limit exceeded"}

ParseBody(body) == IF body = "jsonNull" THEN Null ELSE body

NewEtagDropped(r) == Undefined

NewEtag(r) == IF r.etag \in {"", Undefined} THEN Undefined ELSE r.etag

\* The try block on one response: what it returns or throws.
Throw(e) == [kind |-> "throw", error |-> e]

Return(v) == [kind |-> "return", value |-> v]

TryBlock(r) ==
    IF r.status = 0 THEN Throw(ErrThrown(r))
    ELSE IF IsRateLimited(r) THEN Throw(ErrRateLimit)
    ELSE IF r.status = 304
         THEN Return([data |-> Null, etag |-> Undefined, notModified |-> TRUE])
    ELSE IF r.status = 404 THEN Throw(ErrNotFound)
    ELSE IF ~ResponseOk(r) THEN Throw(ErrHttp(r))
    ELSE IF JsonThrows(r.body) THEN Throw(ErrParse(r.body))
    ELSE Return([data |-> ParseBody(r.body), etag |-> NewEtag(r),
                 notModified |-> FALSE])

\* "Don't retry on rate limit or 404"
NoRetryOnlyRateLimit(error) == includes(error, "Rate limit")

NoRetryOnlyNotFound(error) == includes(error, "Not found")

NoRetry(error) == includes(error, "Rate limit") \/ includes(error, "Not found")

NextLastErrorKeepFirst(lastError, error) ==
    IF lastError = NoError THEN error ELSE lastError

NextLastError(lastError, error) == error

\* The head of the for loop with attempt already set: the next fetch() is
\* issued, or the loop is left and the last error thrown.
EnterLoop(g) ==
    IF LoopCond(g.attempt)
    THEN [g EXCEPT !.pc = "fetching", !.requests = @ + 1]
    ELSE [g EXCEPT !.pc = "thrown",
                   !.error = IF g.lastError # NoError THEN g.lastError
                             ELSE <<"Unknown error">>]

\* githubFetch(endpoint, {etag}) up to its first await.
Call(etag) == EnterLoop([GfIdle EXCEPT !.ifNoneMatch = etag])

\* From the response of the pending fetch() to the next await, return or throw.
HandleResponse(g, r) ==
    LET o == TryBlock(r)
        g1 == [g EXCEPT !.log = Append(@, r),
                        !.console = IF r.status # 0 /\ IsRateLimited(r)
                                    THEN Append(@, ResetDate(r)) ELSE @]
    IN  IF o.kind = "return"
        THEN [g1 EXCEPT !.pc = "returned", !.result = o.value]
        ELSE LET g2 == [g1 EXCEPT !.lastError = NextLastError(g.lastError, o.error)]
             IN  IF NoRetry(g2.lastError)
                 THEN [g2 EXCEPT !.pc = "thrown", !.error = g2.lastError]
                 ELSE IF ShouldBackoff(g2.attempt)
                      THEN [g2 EXCEPT !.pc = "sleeping",
                                      !.delays = Append(@, BackoffDelay(g2.attempt))]
                      ELSE EnterLoop([g2 EXCEPT !.attempt = @ + 1])

\* The sleep() is over: attempt++ and the loop head.
Wake(g) == EnterLoop([g EXCEPT !.attempt = @ + 1])

\* The whole call on the responses rs, as far as they go.
RECURSIVE RunFetch(_, _)
RunFetch(g, rs) ==
    CASE g.pc = "fetching" /\ rs # <<>> -> RunFetch(HandleResponse(g, Head(rs)), Tail(rs))
      [] g.pc = "sleeping" -> RunFetch(Wake(g), rs)
      [] OTHER -> g

githubFetch(etag, rs) == RunFetch(Call(etag), rs)

\* ------------------------------------------------------------------------
\* SpecFetch: one githubFetch call against every response sequence.

EtagOptions == {Undefined, "e1"}

GfCall ==
    /\ gf.pc = "idle"
    /\ \E etag \in EtagOptions : gf' = Call(etag)
    /\ UNCHANGED mainVars

GfRespond ==
    /\ gf.pc = "fetching"
    /\ \E r \in Responses : gf' = HandleResponse(gf, r)
    /\ UNCHANGED mainVars

GfWake ==
    /\ gf.pc = "sleeping"
    /\ gf' = Wake(gf)
    /\ UNCHANGED mainVars

InitMainIdle ==
    /\ repos = <<>>
    /\ net = LeanRemote
    /\ cache = <<>>
    /\ task = <<>>
    /\ queue = <<>>
    /\ activeCount = 0
    /\ successCount = 0
    /\ failCount = 0
    /\ cacheHitCount = 0
    /\ mainPc = "idle"
    /\ disk = EmptyDisk
    /\ run = RunIdle
    /\ env = PlainEnv

InitFetch == gf = GfIdle /\ InitMainIdle /\ call = NoCall

NextFetch == GfCall \/ GfRespond \/ GfWake

SpecFetch == InitFetch /\ [][NextFetch]_vars

\* ------------------------------------------------------------------------
\* Claims about githubFetch (SpecFetch)

Last(seq) == seq[Len(seq)]

\* A non-success response that is none of 304, 404, rate-limit-exhausted.
OtherNonSuccess(r) ==
    /\ r.status # 0
    /\ ~ResponseOk(r)
    /\ r.status \notin {304, 404}
    /\ ~(r.status = 403 /\ r.remaining = "0")

\* C2: one githubFetch call issues at most 3 HTTP requests; once the 3rd is
\* answered the call has returned or thrown, and it never waits to issue a 4th.
C2_AtMostThreeRequests ==
    /\ gf.requests <= 3
    /\ Len(gf.log) <= gf.requests
    /\ (Len(gf.log) = 3 => gf.pc \in {"returned", "thrown"})

C2_Witness == gf.requests = 3 /\ Len(gf.log) = 3 /\ gf.pc = "thrown"

\* C3: the k-th retried failure (k = 1, 2) is followed by exactly one delay of
\* 1000 * 2^(k-1) ms before the next request, no delay follows the 3rd
\* attempt, and transient, transient, success returns the success payload
\* with the delays exactly <<1000, 2000>>.
C3_BackoffSchedule ==
    /\ Len(gf.delays) <= 2
    /\ \A k \in DOMAIN gf.delays : gf.delays[k] = 1000 * (2 ^ (k - 1))
    /\ (gf.pc = "fetching" => Len(gf.delays) = gf.requests - 1)
    /\ (gf.pc = "sleeping" => Len(gf.delays) = Len(gf.log))
    /\ (gf.pc \in {"returned", "thrown"} => Len(gf.delays) = Len(gf.log) - 1)
    /\ (gf.pc = "returned" /\ Len(gf.log) = 3 /\ ResponseOk(gf.log[3]) =>
            /\ gf.delays = <<1000, 2000>>
            /\ gf.result.data = ParseBody(gf.log[3].body))

C3_Witness ==
    /\ gf.pc = "returned"
    /\ Len(gf.log) = 3
    /\ OtherNonSuccess(gf.log[1])
    /\ OtherNonSuccess(gf.log[2])
    /\ gf.log[3].body = "P2"
    /\ gf.result.data = "P2"
    /\ gf.delays = <<1000, 2000>>

\* C4: a 404 on any attempt makes the call throw the NotFound error at once:
\* it is the last response of the call and no delay follows it.
C4_NotFoundShortCircuits ==
    \A k \in DOMAIN gf.log :
        gf.log[k].status = 404 =>
            /\ gf.pc = "thrown"
            /\ gf.error = ErrNotFound
            /\ Len(gf.log) = k
            /\ gf.requests = k
            /\ Len(gf.delays) = k - 1

C4_Witness ==
    /\ Len(gf.log) = 2
    /\ gf.log[2].status = 404
    /\ gf.log[2].remaining = "0"
    /\ gf.pc = "thrown"

\* C5: a 403 with a remaining-quota header of zero on any attempt makes the
\* call throw the RateLimited error at once, with no further request and no
\* delay after it.
C5_RateLimitShortCircuits ==
    \A k \in DOMAIN gf.log :
        (gf.log[k].status = 403 /\ gf.log[k].remaining = "0") =>
            /\ gf.pc = "thrown"
            /\ gf.error = ErrRateLimit
            /\ Len(gf.log) = k
            /\ gf.requests = k
            /\ Len(gf.delays) = k - 1

C5_Witness ==
    /\ Len(gf.log) = 2
    /\ gf.log[2].status = 403
    /\ gf.log[2].remaining = "0"
    /\ gf.pc = "thrown"

\* C6: every non-success response other than 304, 404 and
\* rate-limit-exhausted, received on the 1st or 2nd attempt, is followed by
\* another request: the call does not end on it.
C6_OtherNonSuccessRetried ==
    \A k \in DOMAIN gf.log :
        (OtherNonSuccess(gf.log[k]) /\ k < 3) =>
            ~(gf.pc \in {"returned", "thrown"} /\ Len(gf.log) = k)

\* C7: when all 3 attempts fail with retried errors, the error thrown is the
\* error of the 3rd attempt.
C7_LastErrorThrown ==
    (/\ gf.pc = "thrown"
     /\ Len(gf.log) = 3
     /\ \A k \in 1..3 : TryBlock(gf.log[k]).kind = "throw")
        => gf.error = TryBlock(gf.log[3]).error

C7_Witness ==
    /\ gf.pc = "thrown"
    /\ Len(gf.log) = 3
    /\ gf.log[1].status = 500
    /\ gf.log[2].status = 0
    /\ gf.log[3].status = 502
    /\ gf.error = <<"HTTP", "502", "">>

\* C8 as stated: a 304 makes the call return the sentinel at once, and a
\* success response makes it return the parsed payload, notModified = FALSE
\* and the ETag of that response.
C8_Original ==
    gf.log # <<>> =>
        /\ (Last(gf.log).status = 304 =>
                /\ gf.pc = "returned"
                /\ gf.result = [data |-> Null, etag |-> Undefined, notModified |-> TRUE])
        /\ (ResponseOk(Last(gf.log)) =>
                /\ gf.pc = "returned"
                /\ gf.result.notModified = FALSE
                /\ gf.result.data = ParseBody(Last(gf.log).body)
                /\ gf.result.etag = Last(gf.log).etag)

\* C8 amended: the same, for a success response whose body parses as JSON; a
\* success response whose body does not parse is handled as a failed attempt.
C8_ReturnValues ==
    gf.log # <<>> =>
        /\ (Last(gf.log).status = 304 =>
                /\ gf.pc = "returned"
                /\ gf.result = [data |-> Null, etag |-> Undefined, notModified |-> TRUE])
        /\ (ResponseOk(Last(gf.log)) /\ ~JsonThrows(Last(gf.log).body) =>
                /\ gf.pc = "returned"
                /\ gf.result.notModified = FALSE
                /\ gf.result.data = ParseBody(Last(gf.log).body)
                /\ gf.result.etag = Last(gf.log).etag)
        /\ (ResponseOk(Last(gf.log)) /\ JsonThrows(Last(gf.log).body) =>
                gf.pc # "returned")

C8_Witness ==
    /\ gf.pc = "returned"
    /\ Len(gf.log) = 2
    /\ gf.log[2].body = "P2"
    /\ gf.result = [data |-> "P2", etag |-> "e2", notModified |-> FALSE]

Letters == <<"a", "b", "c">>

Digits == <<"0", "1", "2">>

\* The k-th repository name: two characters, pairwise distinct for k <= 9.
RepoName(k) == <<Letters[(((k - 1) \div 3) % 3) + 1], Digits[((k - 1) % 3) + 1]>>

RepoConfig(k) ==
    [owner |-> <<"o">>,
     repo |-> RepoName(k),
     featured |-> (k % 3 = 1),
     customTags |-> IF k % 4 = 1 THEN << <<"A", " ", "b">>, <<"c">> >>
                    ELSE IF k % 4 = 3 THEN << <<"c">> >>
                    ELSE <<>>]

Catalog(n) == [k \in 1..n |-> RepoConfig(k)]

\* The one-entry catalogs of SpecRepo.
RepoChoices ==
    { [owner |-> <<"A", "_", "o">>, repo |-> <<"R", ".", "1">>, featured |-> TRUE,
       customTags |-> << <<"A", " ", "b">>, <<"c">> >>],
      [owner |-> <<"o">>, repo |-> <<"r">>, featured |-> FALSE, customTags |-> <<>>] }

\* The payloads "P1" and "P2" are two versions of the resource asked for.
MetaOf(config, p) ==
    [name |-> config.repo,
     description |-> IF p = "P1" THEN "a description" ELSE Null,
     html_url |-> IF p = "P1" THEN "https://github.com/o/r" ELSE "https://github.com/O/R",
     homepage |-> IF p = "P1" THEN Null ELSE "https://example.org",
     stargazers_count |-> IF p = "P1" THEN 10 * (Len(config.customTags) + 1) ELSE 5,
     updated_at |-> IF p = "P1" THEN "2024-01-01" ELSE "2024-02-02",
     pushed_at |-> IF p = "P1" THEN "2024-01-03" ELSE "",
     default_branch |-> IF p = "P1" THEN "main" ELSE "trunk"]

TopicsOf(p) ==
    IF p = "P1" THEN << <<"B", "_", "t">>, <<"c">>, <<" ", "a", " ">> >>
    ELSE << <<"t">> >>

\* Buffer.from(content, "base64").toString("utf-8") of the readme payload
DecodedReadme(config, p) == [markdown |-> p, of |-> config.repo]

\* The text rewriteReadmeUrls makes of a markdown text: not the text itself.
RewrittenReadme(markdown, owner, repo, defaultBranch) ==
    [rewritten |-> markdown, owner |-> owner, repo |-> repo, branch |-> defaultBranch]

PlaceholderReadme(repo) == [text |-> <<"# ", repo, "\n\nNo README available.">>]

\* ------------------------------------------------------------------------
\* The disk cache.  A cache file is absent, corrupt (unreadable or not JSON)
\* or holds a CacheEntry.

CacheEntryWithoutEtag(etag, metadata, topics, readme) ==
    [etag |-> Undefined, updatedAt |-> metadata.updated_at, metadata |-> metadata,
     topics |-> topics, readme |-> readme]

CacheEntry(etag, metadata, topics, readme) ==
    [etag |-> etag, updatedAt |-> metadata.updated_at, metadata |-> metadata,
     topics |-> topics, readme |-> readme]

AbsentFile == [state |-> "absent"]

CorruptFile == [state |-> "corrupt"]

EntryFile(entry) == [state |-> "entry", entry |-> entry]

readCache(file) == IF file.state = "entry" THEN file.entry ELSE NullObject

\* The file writeCache leaves
writeCache(entry) == EntryFile(entry)

\* A cache file a previous run left for the entry.
StoredEntry(config, etag) ==
    CacheEntry(etag, MetaOf(config, "P1"), TopicsOf("P1"),
               RewrittenReadme(DecodedReadme(config, "P1"), config.owner,
                               config.repo, "main"))

StoredPlaceholderEntry(config, etag) ==
    CacheEntry(etag, MetaOf(config, "P2"), <<>>, PlaceholderReadme(config.repo))

CacheFiles(config) ==
    { AbsentFile, CorruptFile,
      EntryFile(StoredEntry(config, "e1")),
      EntryFile(StoredEntry(config, Undefined)),
      EntryFile(StoredPlaceholderEntry(config, "e2")) }

\* ------------------------------------------------------------------------
\* What a whole githubFetch call can come to when the remote answers from
\* the response shapes in responses.

Outcome(g) ==
    IF g.pc = "returned"
    THEN [kind |-> "return", value |-> g.result]
    ELSE [kind |-> "throw", error |-> g.error]

OutcomesOver(responses) ==
    { Outcome(githubFetch(Undefined, rs)) : rs \in [1..MAX_RETRIES -> responses] }

AllOutcomes == OutcomesOver(Responses)

\* What the githubFetch call of entry k on an endpoint, sent with etag, can
\* come to against the remote.
Outcomes(remote, k, endpoint, etag) ==
    IF remote = AnyRemote THEN AllOutcomes
    ELSE IF endpoint = "topics" THEN OutcomesOver({LeanTopicsResponse(k)})
    ELSE IF endpoint = "readme" THEN OutcomesOver({LeanReadmeResponse(k)})
    ELSE IF etag = Undefined THEN OutcomesOver(LeanResponses \ {Resp304})
    ELSE OutcomesOver(LeanResponses)

\* ------------------------------------------------------------------------
\* fetchRepo: one invocation, as the positions between its awaits.
\*   pc      "pending" (queued in pLimit) | "readCache" | "meta" | "topics"
\*           | "readme" | "writeCache" | "done"
\*   cached  what readCache returned
\*   calls   the githubFetch calls made so far: endpoint, If-None-Match sent
\*   notModified  whether the metadata call returned notModified
\*   thrown  the endpoints whose githubFetch call threw
\*   absent  the endpoints whose githubFetch call returned no data
\*   reused  whether the "Use cached data" branch was taken
\*   etag, metadata, topics, readme: the local variables of that name, while
\*           the invocation runs
\*   failure the message the catch block logged, failedAt the await it came from
\*   result  the value the invocation resolved to (null or {project, readme})
\*   resolvedAs  where the order of resolution is observed: 1 for the
\*           invocation that resolved first, 2 for the next, ...

TaskPending ==
    [pc |-> "pending", cached |-> NullObject, calls |-> <<>>,
     notModified |-> FALSE, thrown |-> {}, absent |-> {}, reused |-> FALSE,
     etag |-> Undefined, metadata |-> NullObject, topics |-> <<>>,
     readme |-> NullObject, failure |-> NoError, failedAt |-> "",
     result |-> NullObject, observed |-> FALSE, resolvedAs |-> 0]

\* An invocation whose place in the order of resolution is kept
TaskObserved == [TaskPending EXCEPT !.observed = TRUE]

Running == {"readCache", "meta", "topics", "readme", "writeCache"}

InFlight == {i \in DOMAIN task : task[i].pc \in Running}

CanStartOneMore(active) == active <= CONCURRENCY_LIMIT

\* pLimit: activeCount < concurrency
CanStart(active) == active < CONCURRENCY_LIMIT

CallRecordAlwaysConditional(endpoint, etag) ==
    [endpoint |-> endpoint, ifNoneMatch |-> IF etag = Undefined THEN "e1" ELSE etag]

CallRecord(endpoint, etag) == [endpoint |-> endpoint, ifNoneMatch |-> etag]

\* cached?.etag
CachedEtagStale(cached) == IF cached = NullObject THEN "e1" ELSE cached.etag

CachedEtag(cached) == IF cached = NullObject THEN Undefined ELSE cached.etag

CachedFieldsFreshTopics(cached) ==
    [metadata |-> cached.metadata, topics |-> <<>>, readme |-> cached.readme]

\* "Use cached data"
CachedFields(cached) ==
    [metadata |-> cached.metadata, topics |-> cached.topics, readme |-> cached.readme]

\* topicsResult.data?.names || []
TopicNames(data) == IF data = Null THEN <<>> ELSE TopicsOf(data)

\* x || y on strings and null
OrElse(x, y) == IF x \in {Null, Undefined, ""} THEN y ELSE x

BuildProject(config, metadata, topics) ==
    [slug |-> createSlug(config.owner, config.repo),
     title |-> metadata.name,
     description |-> OrElse(metadata.description, ""),
     owner |-> config.owner,
     repo |-> config.repo,
     tags |-> normalizeTags(topics, config.customTags),
     stars |-> metadata.stargazers_count,
     updatedAt |-> OrElse(metadata.pushed_at, metadata.updated_at),
     homepage |-> OrElse(metadata.homepage, Null),
     htmlUrl |-> metadata.html_url,
     defaultBranch |-> metadata.default_branch,
     featured |-> config.featured]

SettleWithoutRefill(i, t) ==
    /\ task' = [task EXCEPT ![i] = t]
    /\ activeCount' = activeCount - 1
    /\ UNCHANGED queue

\* pLimit's next() once the invocation of entry i has resolved to state t:
\* activeCount--, and the head of the queue, if any, is started.
Settle(i, t) ==
    IF queue # <<>>
    THEN /\ task' = [task EXCEPT ![i] = t, ![Head(queue)].pc = "readCache"]
         /\ queue' = Tail(queue)
         /\ UNCHANGED activeCount
    ELSE /\ task' = [task EXCEPT ![i] = t]
         /\ activeCount' = activeCount - 1
         /\ UNCHANGED queue

\* The locals of an invocation that has returned are gone.
Returned(t, result) ==
    [t EXCEPT !.pc = "done", !.result = result, !.metadata = NullObject,
              !.topics = <<>>, !.readme = NullObject,
              !.resolvedAs =
                    IF t.observed
                    THEN Cardinality({j \in DOMAIN task : task[j].pc = "done"}) + 1
                    ELSE 0]

SucceedUncounted(i, t) ==
    /\ Settle(i, Returned(t, [project |-> BuildProject(repos[i], t.metadata, t.topics),
                              readme |-> t.readme]))
    /\ UNCHANGED <<successCount, failCount>>

\* From "Normalize tags" to return {project, readme}.
Succeed(i, t) ==
    /\ successCount' = successCount + 1
    /\ Settle(i, Returned(t, [project |-> BuildProject(repos[i], t.metadata, t.topics),
                              readme |-> t.readme]))
    /\ UNCHANGED failCount

FailUncounted(i, t, error) ==
    /\ Settle(i, [Returned(t, NullObject) EXCEPT !.failure = error, !.failedAt = t.pc])
    /\ UNCHANGED <<successCount, failCount>>

\* The catch block of fetchRepo, on the error thrown at the await of t.pc.
Fail(i, t, error) ==
    /\ failCount' = failCount + 1
    /\ Settle(i, [Returned(t, NullObject) EXCEPT !.failure = error, !.failedAt = t.pc])
    /\ UNCHANGED successCount

\* pLimit after the limit() calls: each enqueue's microtask starts the head
\* of the queue while activeCount < concurrency; a started fetchRepo runs up
\* to await readCache.  pool is [queue, active, tasks].
RECURSIVE StartQueued(_)
StartQueued(pool) ==
    IF pool.queue # <<>> /\ CanStart(pool.active)
    THEN StartQueued([queue |-> Tail(pool.queue),
                      active |-> pool.active + 1,
                      tasks |-> [pool.tasks EXCEPT ![Head(pool.queue)].pc = "readCache"]])
    ELSE pool

\* main() up to await Promise.all: the directories, pLimit, one limit() per
\* entry in catalog order, and the microtasks that start the first of them.
ContentDirKept(dir) == dir

\* rm(CONTENT_DIR, { recursive: true }) when it exists, then mkdir: what
\* src/content/projects holds afterwards
RecreatedContentDir(dir) == {}

MainStart ==
    /\ mainPc = "idle"
    /\ mainPc' = "fetching"
    /\ LET pool == StartQueued([queue |-> [k \in 1..Len(repos) |-> k],
                                active |-> activeCount,
                                tasks |-> task])
       IN  /\ queue' = pool.queue
           /\ activeCount' = pool.active
           /\ task' = pool.tasks
    /\ disk' = [disk EXCEPT !.content = RecreatedContentDir(@)]
    /\ UNCHANGED <<gf, repos, cache, net, successCount, failCount, cacheHitCount,
                   run, env, call>>

\* readCache has resolved; the metadata githubFetch is called.
CacheRead(i) ==
    /\ task[i].pc = "readCache"
    /\ LET cached == readCache(cache[i])
       IN  task' = [task EXCEPT ![i].pc = "meta",
                                ![i].cached = cached,
                                ![i].calls = Append(@, CallRecord("meta", CachedEtag(cached)))]
    /\ UNCHANGED <<gf, repos, net, cache, queue, activeCount,
                   successCount, failCount, cacheHitCount, mainPc, disk, run, env, call>>

UseCachedWheneverCached(value, cached) == cached # NullObject

ErrNoDataAsNotFound == <<"Not found: ", "endpoint">>

\* throw new Error("No data received")
ErrNoData == <<"No data received">>

\* metaResult.notModified && cached
UseCached(value, cached) == value.notModified /\ cached # NullObject

FileAfterReuseRewritten(file, cached) ==
    writeCache(CacheEntry(Undefined, cached.metadata, cached.topics, cached.readme))

\* The cache file after the "Use cached data" branch, which has no writeCache
FileAfterReuse(file, cached) == file

\* The metadata githubFetch has settled.
MetaDone(i) ==
    /\ task[i].pc = "meta"
    /\ \E o \in Outcomes(net, i, "meta", CachedEtag(task[i].cached)) :
        LET t == [task[i] EXCEPT
                    !.thrown = IF o.kind = "throw" THEN @ \cup {"meta"} ELSE @,
                    !.absent = IF o.kind = "return" /\ o.value.data = Null
                               THEN @ \cup {"meta"} ELSE @,
                    !.notModified = (o.kind = "return" /\ o.value.notModified)]
        IN  IF o.kind = "throw"
            THEN Fail(i, t, o.error) /\ UNCHANGED <<cacheHitCount, cache>>
            ELSE IF UseCached(o.value, t.cached)
            THEN /\ cacheHitCount' = cacheHitCount + 1
                 /\ cache' = [cache EXCEPT ![i] = FileAfterReuse(cache[i], t.cached)]
                 /\ Succeed(i, [t EXCEPT !.reused = TRUE,
                                         !.etag = o.value.etag,
                                         !.metadata = CachedFields(t.cached).metadata,
                                         !.topics = CachedFields(t.cached).topics,
                                         !.readme = CachedFields(t.cached).readme])
            ELSE IF o.value.data # Null
            THEN /\ task' = [task EXCEPT ![i] =
                                [t EXCEPT !.pc = "topics",
                                          !.etag = o.value.etag,
                                          !.metadata = MetaOf(repos[i], o.value.data),
                                          !.calls = Append(@, CallRecord("topics", Undefined))]]
                 /\ UNCHANGED <<queue, activeCount, successCount, failCount,
                                cacheHitCount, cache>>
            ELSE Fail(i, t, ErrNoData) /\ UNCHANGED <<cacheHitCount, cache>>
    /\ UNCHANGED <<gf, repos, net, mainPc, disk, run, env, call>>

\* The topics githubFetch has settled: it is not inside a try of its own, so
\* what it throws reaches the catch block of fetchRepo.
TopicsDone(i) ==
    /\ task[i].pc = "topics"
    /\ \E o \in Outcomes(net, i, "topics", Undefined) :
        LET t == [task[i] EXCEPT
                    !.thrown = IF o.kind = "throw" THEN @ \cup {"topics"} ELSE @]
        IN  IF o.kind = "throw"
            THEN Fail(i, t, o.error)
            ELSE /\ task' = [task EXCEPT ![i] =
                                [t EXCEPT !.pc = "readme",
                                          !.topics = TopicNames(o.value.data),
                                          !.calls = Append(@, CallRecord("readme", Undefined))]]
                 /\ UNCHANGED <<queue, activeCount, successCount, failCount>>
    /\ UNCHANGED <<gf, repos, net, cache, cacheHitCount, mainPc, disk, run, env, call>>

ResolveReadmeEmptyCatch(o, config, defaultBranch) ==
    IF o.kind = "throw" THEN [text |-> <<>>]
    ELSE IF o.value.data # Null
    THEN RewrittenReadme(DecodedReadme(config, o.value.data),
                         config.owner, config.repo, defaultBranch)
    ELSE PlaceholderReadme(config.repo)

\* The try block around the readme request: the readme decoded and rewritten,
\* or the placeholder when there is no data or anything in the block threw
ResolveReadme(o, config, defaultBranch) ==
    IF o.kind = "return" /\ o.value.data # Null
    THEN RewrittenReadme(DecodedReadme(config, o.value.data),
                         config.owner, config.repo, defaultBranch)
    ELSE PlaceholderReadme(config.repo)

\* The readme githubFetch has settled, inside its own try; writeCache starts.
ReadmeDone(i) ==
    /\ task[i].pc = "readme"
    /\ \E o \in Outcomes(net, i, "readme", Undefined) :
        LET t == [task[i] EXCEPT
                    !.thrown = IF o.kind = "throw" THEN @ \cup {"readme"} ELSE @,
                    !.absent = IF o.kind = "return" /\ o.value.data = Null
                               THEN @ \cup {"readme"} ELSE @]
            readme == ResolveReadme(o, repos[i], t.metadata.default_branch)
        IN  task' = [task EXCEPT ![i] = [t EXCEPT !.pc = "writeCache", !.readme = readme]]
    /\ UNCHANGED <<gf, repos, net, cache, queue, activeCount,
                   successCount, failCount, cacheHitCount, mainPc, disk, run, env, call>>

\* writeCache has resolved; the invocation runs to its return.
CacheWritten(i) ==
    /\ task[i].pc = "writeCache"
    /\ cache' = [cache EXCEPT ![i] =
                    writeCache(CacheEntry(task[i].etag, task[i].metadata,
                                          task[i].topics, task[i].readme))]
    /\ Succeed(i, task[i])
    /\ UNCHANGED <<gf, repos, net, cacheHitCount, mainPc, disk, run, env, call>>

\* writeCache has rejected (mkdir or writeFile failed): the error reaches the
\* catch block of fetchRepo; the file is as it was, or cut short.
CacheWriteFailed(i) ==
    /\ task[i].pc = "writeCache"
    /\ \E file \in {cache[i], CorruptFile} : cache' = [cache EXCEPT ![i] = file]
    /\ Fail(i, task[i], <<"ENOSPC: no space left on device">>)
    /\ UNCHANGED <<gf, repos, net, cacheHitCount, mainPc, disk, run, env, call>>

\* ------------------------------------------------------------------------
\* main() after the fetch phase.
\*   mainPc  "idle" | "fetching" (await Promise.all) | "writeIndex" |
\*           "writeContent" | "profile" | "writeProfile" | "contributions" |
\*           "writeContributions" | "exited"

PromiseAllResolvedAny(tasks) == \E i \in DOMAIN tasks : tasks[i].pc = "done"

\* await Promise.all(...) goes on once every invocation has resolved
PromiseAllResolved(tasks) == \A i \in DOMAIN tasks : tasks[i].pc = "done"

\* The values in the order in which the promises resolved
PromiseAllValuesAsResolved(tasks) ==
    [k \in 1..Len(tasks) |->
        tasks[CHOOSE i \in DOMAIN tasks : tasks[i].resolvedAs = k].result]

\* The array Promise.all resolves to: the values in the order of the
\* promises it was given, which is the order of repos
PromiseAllValues(tasks) == [i \in 1..Len(tasks) |-> tasks[i].result]

\* r !== null
IsSuccess(r) == r # NullObject

CompareStarsOnly(a, b) == b.project.stars - a.project.stars

\* The comparator of successfulResults.sort: featured first, then by stars
Compare(a, b) ==
    IF a.project.featured # b.project.featured
    THEN IF a.project.featured THEN -1 ELSE 1
    ELSE b.project.stars - a.project.stars

\* x goes before the first element it must precede: after its equals
RECURSIVE InsertResult(_, _)
InsertResult(x, sorted) ==
    IF sorted = <<>> THEN <<x>>
    ELSE IF Compare(x, Head(sorted)) < 0 THEN <<x>> \o sorted
    ELSE <<Head(sorted)>> \o InsertResult(x, Tail(sorted))

\* Array.prototype.sort with the comparator (stable)
RECURSIVE SortResults(_)
SortResults(list) ==
    IF list = <<>> THEN <<>>
    ELSE InsertResult(list[Len(list)], SortResults(SubSeq(list, 1, Len(list) - 1)))

ProjectsOf(results) == [k \in 1..Len(results) |-> results[k].project]

RECURSIVE Flatten(_)
Flatten(lists) ==
    IF lists = <<>> THEN <<>> ELSE Head(lists) \o Flatten(Tail(lists))

AllTagsKeepingDuplicates(projects) ==
    SortStrings(Flatten([k \in 1..Len(projects) |-> projects[k].tags]))

\* allTagsSet filled project by project, tag by tag; [...allTagsSet].sort()
AllTags(projects) ==
    SortStrings(Dedupe(Flatten([k \in 1..Len(projects) |-> projects[k].tags])))

\* The frontmatter block: every field of the project but its slug
generateFrontmatter(project) ==
    [title |-> project.title, description |-> project.description,
     owner |-> project.owner, repo |-> project.repo, tags |-> project.tags,
     stars |-> project.stars, updatedAt |-> project.updatedAt,
     homepage |-> project.homepage, htmlUrl |-> project.htmlUrl,
     defaultBranch |-> project.defaultBranch, featured |-> project.featured]

\* src/content/projects/<slug>.md
ContentFile(result) ==
    [name |-> result.project.slug,
     frontmatter |-> generateFrontmatter(result.project),
     body |-> result.readme]

\* writeFile into a directory: a file of that name is overwritten
WriteInto(dir, file) == {f \in dir : f.name # file.name} \cup {file}

\* repos[0]?.owner || "YannickHerrero"
ProfileUsername(catalog) ==
    IF catalog = <<>> \/ catalog[1].owner = <<>>
    THEN <<"YannickHerrero">>
    ELSE catalog[1].owner

\* What fetchProfileReadme returns on the outcome o of its githubFetch call
fetchProfileReadme(o, username) ==
    IF o.kind = "return" /\ o.value.data # Null
    THEN [username |-> username,
          readme |-> RewrittenReadme(DecodedReadme([repo |-> username], o.value.data),
                                     username, username, "main")]
    ELSE NullObject

\* contributionLevel -> 0..4; an unknown level counts as 0
LevelUnmapped(name) ==
    CASE name = "NONE" -> 0
      [] name = "FIRST_QUARTILE" -> 1
      [] name = "SECOND_QUARTILE" -> 2
      [] name = "THIRD_QUARTILE" -> 3
      [] name = "FOURTH_QUARTILE" -> 4
      [] OTHER -> -1

\* levelMap[day.contributionLevel] ?? 0
Level(name) ==
    CASE name = "NONE" -> 0
      [] name = "FIRST_QUARTILE" -> 1
      [] name = "SECOND_QUARTILE" -> 2
      [] name = "THIRD_QUARTILE" -> 3
      [] name = "FOURTH_QUARTILE" -> 4
      [] OTHER -> 0

Day(date, count, level) ==
    [date |-> date, contributionCount |-> count, contributionLevel |-> level]

\* contributionCalendar values the GraphQL endpoint may send: weeks of day
\* buckets and a total.  The second has a week of one day, a level name
\* levelMap does not know and a total that is not the sum of its days; the
\* third has no week.
Calendars ==
    { [totalContributions |-> 9,
       weeks |-> << <<Day("d1", 0, "NONE"), Day("d2", 2, "FIRST_QUARTILE")>>,
                    <<Day("d3", 7, "FOURTH_QUARTILE")>> >>],
      [totalContributions |-> 4,
       weeks |-> << <<Day("d1", 1, "SECOND_QUARTILE")>>,
                    <<Day("d2", 1, "THIRD_QUARTILE"), Day("d3", 1, "FIFTH_QUARTILE")>> >>],
      [totalContributions |-> 0, weeks |-> <<>>] }

\* What the GraphQL endpoint can answer: a calendar, an HTTP error status,
\* an errors member, a user without calendar; or fetch() rejects.
GraphqlAnswers ==
    {[kind |-> "calendar", calendar |-> c] : c \in Calendars}
        \cup {[kind |-> k] : k \in {"httpError", "errors", "noCalendar", "rejected"}}

fetchContributionsEmptyOnError(answer, username) ==
    IF answer.kind = "calendar"
    THEN [contributions |-> <<>>, totalContributions |-> answer.calendar.totalContributions,
          username |-> username, fetchedAt |-> "now"]
    ELSE [contributions |-> <<>>, totalContributions |-> 0, username |-> username,
          fetchedAt |-> "now"]

\* What fetchContributions returns on an answer of the GraphQL endpoint
fetchContributions(answer, username) ==
    IF answer.kind = "calendar"
    THEN LET days == Flatten(answer.calendar.weeks)
         IN  [contributions |-> [k \in 1..Len(days) |->
                                    [date |-> days[k].date,
                                     count |-> days[k].contributionCount,
                                     level |-> Level(days[k].contributionLevel)]],
              totalContributions |-> answer.calendar.totalContributions,
              username |-> username,
              fetchedAt |-> "now"]
    ELSE NullObject

TokenMissingNever(e) == FALSE

\* !GITHUB_TOKEN
TokenMissing(e) == ~e.token

ExitStatusAboveOne(fails) == IF fails > 1 THEN 1 ELSE 0

\* if (failCount > 0) process.exit(1); else main() returns and the process
\* ends with status 0
ExitStatus(fails) == IF fails > 0 THEN 1 ELSE 0

\* Promise.all has resolved: the failures are filtered out, the successes
\* sorted, the tags collected, and projects.json is being written.
AllSettled ==
    /\ mainPc = "fetching"
    /\ PromiseAllResolved(task)
    /\ LET results == PromiseAllValues(task)
           successfulResults == SortResults(SelectSeq(results, IsSuccess))
       IN  run' = [run EXCEPT !.successfulResults = successfulResults,
                              !.allTags = AllTags(ProjectsOf(successfulResults))]
    /\ mainPc' = "writeIndex"
    /\ UNCHANGED <<gf, repos, net, cache, task, queue, activeCount,
                   successCount, failCount, cacheHitCount, disk, env, call>>

\* projects.json is written; the loop over successfulResults begins.
IndexWritten ==
    /\ mainPc = "writeIndex"
    /\ disk' = [disk EXCEPT !.index =
                    [state |-> "written",
                     projects |-> ProjectsOf(run.successfulResults),
                     allTags |-> run.allTags,
                     generatedAt |-> "now"]]
    /\ mainPc' = IF run.successfulResults = <<>> THEN "profile" ELSE "writeContent"
    /\ UNCHANGED <<gf, repos, net, cache, task, queue, activeCount,
                   successCount, failCount, cacheHitCount, run, env, call>>

\* One <slug>.md is written; after the last, fetchProfileReadme is called.
ContentWritten ==
    /\ mainPc = "writeContent"
    /\ LET k == run.written + 1
       IN  /\ disk' = [disk EXCEPT !.content =
                            WriteInto(@, ContentFile(run.successfulResults[k]))]
           /\ run' = [run EXCEPT !.written = k]
           /\ mainPc' = IF k = Len(run.successfulResults) THEN "profile"
                        ELSE "writeContent"
    /\ UNCHANGED <<gf, repos, net, cache, task, queue, activeCount,
                   successCount, failCount, cacheHitCount, env, call>>

\* fetchProfileReadme has resolved; profile.json is being written.
ProfileDone ==
    /\ mainPc = "profile"
    /\ \E o \in Outcomes(net, 0, "profile", Undefined) :
        run' = [run EXCEPT
                  !.profileOutcome = IF o.kind = "throw" THEN "throw"
                                     ELSE IF o.value.data = Null THEN "nodata"
                                     ELSE "data",
                  !.profile = fetchProfileReadme(o, ProfileUsername(repos))]
    /\ mainPc' = "writeProfile"
    /\ UNCHANGED <<gf, repos, net, cache, task, queue, activeCount,
                   successCount, failCount, cacheHitCount, disk, env, call>>

\* profile.json is written; fetchContributions is called.
ProfileWritten ==
    /\ mainPc = "writeProfile"
    /\ disk' = [disk EXCEPT !.profile =
                    [state |-> "written", profile |-> run.profile, fetchedAt |-> "now"]]
    /\ mainPc' = "contributions"
    /\ UNCHANGED <<gf, repos, net, cache, task, queue, activeCount,
                   successCount, failCount, cacheHitCount, run, env, call>>

\* fetchContributions has resolved: without GITHUB_TOKEN at once and with
\* no request; contributions.json is being written.
ContributionsDone ==
    /\ mainPc = "contributions"
    /\ IF TokenMissing(env)
       THEN run' = [run EXCEPT !.contributions = NullObject]
       ELSE \E answer \in GraphqlAnswers :
                run' = [run EXCEPT
                          !.graphqlAnswer = answer,
                          !.contributions = fetchContributions(answer, ProfileUsername(repos)),
                          !.graphqlRequests = @ + 1]
    /\ mainPc' = "writeContributions"
    /\ UNCHANGED <<gf, repos, net, cache, task, queue, activeCount,
                   successCount, failCount, cacheHitCount, disk, env, call>>

\* contributions.json is written, the summary printed, and the process ends.
ContributionsWritten ==
    /\ mainPc = "writeContributions"
    /\ disk' = [disk EXCEPT !.contributions =
                    [state |-> "written", contributions |-> run.contributions]]
    /\ run' = [run EXCEPT !.exitCode = ExitStatus(failCount)]
    /\ mainPc' = "exited"
    /\ UNCHANGED <<gf, repos, net, cache, task, queue, activeCount,
                   successCount, failCount, cacheHitCount, env, call>>

InitCounters ==
    /\ gf = GfIdle
    /\ queue = <<>>
    /\ activeCount = 0
    /\ successCount = 0
    /\ failCount = 0
    /\ cacheHitCount = 0
    /\ mainPc = "idle"
    /\ run = RunIdle
    /\ call = NoCall

\* A repository the previous run had in its catalog
GoneConfig == [owner |-> <<"o">>, repo |-> <<"t">>, featured |-> FALSE, customTags |-> <<>>]

\* What the previous run fetched for an entry
PreviousResult(config) ==
    [project |-> BuildProject(config, MetaOf(config, "P2"), <<>>),
     readme |-> PlaceholderReadme(config.repo)]

\* What a previous run over GoneConfig and the first entry of the catalog
\* left in src/content/projects and src/generated.
PreviousDisk(catalog) ==
    LET results == <<PreviousResult(GoneConfig), PreviousResult(catalog[1])>>
    IN  [content |-> {ContentFile(results[k]) : k \in 1..2},
         index |-> [state |-> "written", projects |-> ProjectsOf(results),
                    allTags |-> AllTags(ProjectsOf(results)), generatedAt |-> "before"],
         profile |-> [state |-> "written", profile |-> NullObject, fetchedAt |-> "before"],
         contributions |-> [state |-> "written", contributions |-> NullObject]]

\* The whole catalog; every other entry has a cache file of a previous run.
Init ==
    /\ repos = Catalog(NumRepos)
    /\ net = LeanRemote
    /\ disk = PreviousDisk(repos)
    /\ env = PlainEnv
    /\ cache = [k \in 1..NumRepos |->
                    IF k % 2 = 1 THEN EntryFile(StoredEntry(RepoConfig(k), "e1"))
                    ELSE AbsentFile]
    /\ task = [k \in 1..NumRepos |-> TaskPending]
    /\ InitCounters

\* One entry, any cache file, every response shape.
InitRepo ==
    /\ \E config \in RepoChoices :
        /\ repos = <<config>>
        /\ \E file \in CacheFiles(config) : cache = <<file>>
    /\ net = AnyRemote
    /\ task = <<TaskPending>>
    /\ disk \in {EmptyDisk, PreviousDisk(repos)}
    /\ env \in [token : BOOLEAN]
    /\ InitCounters

\* Repositories whose names differ only in characters createSlug replaces,
\* or in where the owner ends and the name begins.
LookAlikes ==
    { [owner |-> <<"o">>, repo |-> <<"r", ".", "1">>, featured |-> FALSE, customTags |-> <<>>],
      [owner |-> <<"o">>, repo |-> <<"r", "_", "1">>, featured |-> FALSE, customTags |-> <<>>],
      [owner |-> <<"a", "-", "b">>, repo |-> <<"c">>, featured |-> TRUE, customTags |-> <<>>],
      [owner |-> <<"a">>, repo |-> <<"b", "-", "c">>, featured |-> FALSE, customTags |-> <<>>] }

\* Three entries of pairwise distinct (owner, repo), no cache yet.
InitSlugs ==
    /\ \E a, b, c \in LookAlikes :
        /\ a # b /\ a # c /\ b # c
        /\ repos = <<a, b, c>>
    /\ net = LeanRemote
    /\ cache = [k \in 1..3 |-> AbsentFile]
    /\ task = [k \in 1..3 |-> TaskObserved]
    /\ disk = PreviousDisk(repos)
    /\ env = PlainEnv
    /\ InitCounters

Next ==
    \/ MainStart
    \/ \E i \in DOMAIN task : CacheRead(i)
    \/ \E i \in DOMAIN task : MetaDone(i)
    \/ \E i \in DOMAIN task : TopicsDone(i)
    \/ \E i \in DOMAIN task : ReadmeDone(i)
    \/ \E i \in DOMAIN task : CacheWritten(i)
    \/ AllSettled
    \/ IndexWritten
    \/ ContentWritten
    \/ ProfileDone
    \/ ProfileWritten
    \/ ContributionsDone
    \/ ContributionsWritten

\* Next, on a disk where a cache write can fail
NextRepo == Next \/ \E i \in DOMAIN task : CacheWriteFailed(i)

Spec == Init /\ [][Next]_vars

SpecRepo == InitRepo /\ [][NextRepo]_vars

\* Next can take a step exactly when main() has not come to its end and,
\* while it awaits Promise.all, an invocation is running or all have resolved.
NextEnabled ==
    /\ mainPc # "exited"
    /\ mainPc = "fetching" =>
            \/ \E i \in DOMAIN task : task[i].pc \in Running
            \/ \A i \in DOMAIN task : task[i].pc = "done"

\* Every request and disk operation completes: weak fairness of Next, with
\* ENABLED <<Next>>_vars written as NextEnabled and <<Next>>_vars as a step
\* that changes vars (under [][Next]_vars every such step is a Next step).
SpecLive == Init /\ [][Next]_vars /\ (<>[]NextEnabled => []<><<TRUE>>_vars)

SpecSlugs == InitSlugs /\ [][Next]_vars

\* ------------------------------------------------------------------------
\* The script run again over what the run before left: a new process, with
\* its counters and locals fresh, the same catalog, and the cache directory
\* and the output files as they are on disk.

MaxRuns == 2

\* What is remembered of an invocation of the run before: whether it wrote a
\* fresh Cache Record, whether its readme request had thrown, and the etag
\* the metadata response gave it.
Remembered(t) ==
    [wroteCache |-> (t.result # NullObject /\ ~t.reused),
     readmeThrown |-> ("readme" \in t.thrown),
     etag |-> t.etag]

RunAgain ==
    /\ mainPc = "exited"
    /\ run.number < MaxRuns
    /\ mainPc' = "idle"
    /\ run' = [RunIdle EXCEPT !.number = run.number + 1, !.previous = [i \in DOMAIN task |-> Remembered(task[i])]]
    /\ task' = [i \in DOMAIN task |-> TaskPending]
    /\ queue' = <<>>
    /\ activeCount' = 0
    /\ successCount' = 0
    /\ failCount' = 0
    /\ cacheHitCount' = 0
    /\ UNCHANGED <<gf, repos, net, cache, disk, env, call>>

\* One entry, any cache file, every response shape, no GITHUB_TOKEN.
InitRuns ==
    /\ \E config \in RepoChoices :
        /\ repos = <<config>>
        /\ \E file \in CacheFiles(config) : cache = <<file>>
    /\ net = AnyRemote
    /\ task = <<TaskPending>>
    /\ disk = EmptyDisk
    /\ env = [token |-> FALSE]
    /\ InitCounters

NextRuns == NextRepo \/ RunAgain

SpecRuns == InitRuns /\ [][NextRuns]_vars

\* ------------------------------------------------------------------------
\* rewriteReadmeUrls.  A markdown text is, like every string here, the
\* sequence of its characters; the three replace() calls scan it from left
\* to right as the regular expressions do.

StartsWith(str, prefix) ==
    /\ Len(str) >= Len(prefix)
    /\ SubSeq(str, 1, Len(prefix)) = prefix

\* str.slice(start)
slice(str, start) == SubSeq(str, start + 1, Len(str))

Least(set) == CHOOSE k \in set : \A j \in set : k <= j

\* The first index from `from` on where str has a character of chars; 0: none
IndexFrom(str, chars, from) ==
    LET hits == {k \in from..Len(str) : str[k] \in chars}
    IN  IF hits = {} THEN 0 ELSE Least(hits)

HttpPrefix == <<"h", "t", "t", "p", ":", "/", "/">>

HttpsPrefix == <<"h", "t", "t", "p", "s", ":", "/", "/">>

MailtoPrefix == <<"m", "a", "i", "l", "t", "o", ":">>

isAbsolute(url) ==
    \/ StartsWith(url, HttpPrefix)
    \/ StartsWith(url, HttpsPrefix)
    \/ StartsWith(url, <<"/", "/">>)
    \/ StartsWith(url, <<"#">>)
    \/ StartsWith(url, MailtoPrefix)

\* path.replace(/^\.?\//, "")
normalizePath(path) ==
    IF StartsWith(path, <<".", "/">>) THEN slice(path, 2)
    ELSE IF StartsWith(path, <<"/">>) THEN slice(path, 1)
    ELSE path

\* url.split(/[?#]/)[0]
BeforeQueryOrFragment(url) ==
    LET k == IndexFrom(url, {"?", "#"}, 1)
    IN  IF k = 0 THEN url ELSE SubSeq(url, 1, k - 1)

\* `${base}/${cleanPath}${suffix}`
RewriteTarget(url, base) ==
    LET cleanPath == normalizePath(BeforeQueryOrFragment(url))
        suffix == slice(url, Len(cleanPath)
                             + (IF StartsWith(url, <<".", "/">>) THEN 2 ELSE 0))
    IN  base \o <<"/">> \o cleanPath \o suffix

rawBase(owner, repo, defaultBranch) ==
    <<"h", "t", "t", "p", "s", ":", "/", "/", "r", "a", "w", ".", "g", "i", "t", "h", "u", "b", "u", "s", "e", "r", "c", "o", "n", "t", "e", "n", "t", ".", "c", "o", "m", "/">>
        \o owner \o <<"/">> \o repo \o <<"/">> \o defaultBranch

blobBase(owner, repo, defaultBranch) ==
    <<"h", "t", "t", "p", "s", ":", "/", "/", "g", "i", "t", "h", "u", "b", ".", "c", "o", "m", "/">>
        \o owner \o <<"/">> \o repo \o <<"/", "b", "l", "o", "b", "/">> \o defaultBranch

\* \[(text)\]\((url)\) matched at position i of str: text runs to the first
\* "]" and has at least minText characters, url runs to the first ")" and
\* has at least one.  end is the position of the ")".
BracketMatch(str, i, minText) ==
    LET j == IndexFrom(str, {"]"}, i + 1)
        k == IF j = 0 THEN 0 ELSE IndexFrom(str, {")"}, j + 2)
    IN  IF /\ i <= Len(str)
           /\ str[i] = "["
           /\ j # 0
           /\ j - (i + 1) >= minText
           /\ j + 1 <= Len(str)
           /\ str[j + 1] = "("
           /\ k > j + 2
        THEN [found |-> TRUE, text |-> SubSeq(str, i + 1, j - 1),
              url |-> SubSeq(str, j + 2, k - 1), end |-> k]
        ELSE [found |-> FALSE]

\* The callback of the first replace()
ImageReplacement(match, alt, url, base) ==
    IF isAbsolute(url) THEN match
    ELSE <<"!", "[">> \o alt \o <<"]", "(">> \o RewriteTarget(url, base) \o <<")">>

\* result.replace(/!\[([^\]]*)\]\(([^)]+)\)/g, ...), from position i on:
\* the leftmost match is replaced and the search goes on behind it
RECURSIVE ReplaceImages(_, _, _)
ReplaceImages(str, i, base) ==
    LET starts == {k \in i..Len(str) :
                      str[k] = "!" /\ BracketMatch(str, k + 1, 0).found}
        first == Least(starts)
        m == BracketMatch(str, first + 1, 0)
    IN  IF starts = {} THEN SubSeq(str, i, Len(str))
        ELSE SubSeq(str, i, first - 1)
                \o ImageReplacement(SubSeq(str, first, m.end), m.text, m.url, base)
                \o ReplaceImages(str, m.end + 1, base)

\* The flag i of the second regular expression, for the letters of img, src
AsciiLower(c) ==
    CASE c = "I" -> "i" [] c = "M" -> "m" [] c = "G" -> "g"
      [] c = "S" -> "s" [] c = "R" -> "r" [] c = "C" -> "c"
      [] OTHER -> c

Lower(str) == [k \in 1..Len(str) |-> AsciiLower(str[k])]

Quotes == {"\"", "'"}

\* <img\s+([^>]*?)src=["']([^"']+)["']([^>]*?)> matched at position i of
\* str: \s+ takes the whole run of white space, before is the shortest
\* stretch without ">" that a src= with a quoted, non-empty url follows, after
\* runs to the first ">".
HtmlImgMatch(str, i) ==
    LET nonSpace == {k \in (i + 4)..Len(str) : ~IsSpace(str[k])}
        wsEnd == IF nonSpace = {} THEN Len(str)
                 ELSE Least(nonSpace) - 1
        Closing(p) == IndexFrom(str, Quotes, p + 5)
        starts == {p \in (wsEnd + 1)..(Len(str) - 4) :
                      /\ \A n \in (wsEnd + 1)..(p - 1) : str[n] # ">"
                      /\ Lower(SubSeq(str, p, p + 3)) = <<"s", "r", "c", "=">>
                      /\ str[p + 4] \in Quotes
                      /\ Closing(p) > p + 5
                      /\ IndexFrom(str, {">"}, Closing(p) + 1) # 0}
        p == Least(starts)
    IN  IF /\ i + 4 <= Len(str)
           /\ Lower(SubSeq(str, i, i + 3)) = <<"<", "i", "m", "g">>
           /\ IsSpace(str[i + 4])
           /\ starts # {}
        THEN [found |-> TRUE,
              before |-> SubSeq(str, wsEnd + 1, p - 1),
              url |-> SubSeq(str, p + 5, Closing(p) - 1),
              after |-> SubSeq(str, Closing(p) + 1,
                               IndexFrom(str, {">"}, Closing(p) + 1) - 1),
              end |-> IndexFrom(str, {">"}, Closing(p) + 1)]
        ELSE [found |-> FALSE]

\* The callback of the second replace()
HtmlImgReplacement(match, before, url, after, base) ==
    IF isAbsolute(url) THEN match
    ELSE <<"<", "i", "m", "g", " ">> \o before \o <<"s", "r", "c", "=", "\"">>
            \o base \o <<"/">> \o normalizePath(url) \o <<"\"">> \o after \o <<">">>

RECURSIVE ReplaceHtmlImgs(_, _, _)
ReplaceHtmlImgs(str, i, base) ==
    LET starts == {k \in i..Len(str) : HtmlImgMatch(str, k).found}
        first == Least(starts)
        m == HtmlImgMatch(str, first)
    IN  IF starts = {} THEN SubSeq(str, i, Len(str))
        ELSE SubSeq(str, i, first - 1)
                \o HtmlImgReplacement(SubSeq(str, first, m.end), m.before, m.url,
                                      m.after, base)
                \o ReplaceHtmlImgs(str, m.end + 1, base)

\* The callback of the third replace()
LinkReplacement(match, text, url, base) ==
    IF isAbsolute(url) THEN match
    ELSE IF StartsWith(url, <<"#">>) THEN match
    ELSE IF StartsWith(match, <<"!">>) THEN match
    ELSE <<"[">> \o text \o <<"]", "(">> \o RewriteTarget(url, base) \o <<")">>

\* result.replace(/\[([^\]]+)\]\(([^)]+)\)/g, ...), from position i on
RECURSIVE ReplaceLinks(_, _, _)
ReplaceLinks(str, i, base) ==
    LET starts == {k \in i..Len(str) : BracketMatch(str, k, 1).found}
        first == Least(starts)
        m == BracketMatch(str, first, 1)
    IN  IF starts = {} THEN SubSeq(str, i, Len(str))
        ELSE SubSeq(str, i, first - 1)
                \o LinkReplacement(SubSeq(str, first, m.end), m.text, m.url, base)
                \o ReplaceLinks(str, m.end + 1, base)

rewriteReadmeUrls(markdown, owner, repo, defaultBranch) ==
    LET raw == rawBase(owner, repo, defaultBranch)
        blob == blobBase(owner, repo, defaultBranch)
        images == ReplaceImages(markdown, 1, raw)
        imgs == ReplaceHtmlImgs(images, 1, raw)
    IN  ReplaceLinks(imgs, 1, blob)

\* ------------------------------------------------------------------------
\* rewriteReadmeUrls on its own: every markdown text made of at most
\* MaxDocLen pieces, a piece being a word, a markdown image, an HTML image
\* or a markdown link, with a target of ReadmeTargets.

MaxDocLen == 2

\* Targets isAbsolute recognises, a target with another scheme, and
\* relative targets: bare, ./ and / prefixed, with query string, with fragment.
ReadmeTargets ==
    { <<"h", "t", "t", "p", "s", ":", "/", "/", "h">>,
      <<"h", "t", "t", "p", ":", "/", "/", "h">>,
      <<"/", "/", "h">>,
      <<"#", "f">>,
      <<"m", "a", "i", "l", "t", "o", ":", "m">>,
      <<"f", "t", "p", ":", "/", "/", "h">>,
      <<"p">>,
      <<".", "/", "p">>,
      <<"/", "p">>,
      <<"d", "/", "p", "?", "q">>,
      <<".", "/", "p", "#", "f">> }

MarkdownImage(alt, url) == [kind |-> "image", text |-> alt, url |-> url]

MarkdownLink(text, url) == [kind |-> "link", text |-> text, url |-> url]

HtmlImg(open, before, quote, url, after) ==
    [kind |-> "img", open |-> open, before |-> before, quote |-> quote,
     url |-> url, after |-> after]

Word(text) == [kind |-> "word", text |-> text]

ReadmePieces ==
    {Word(<<"w", " ">>)}
        \cup {MarkdownImage(alt, url) : alt \in {<<>>, <<"a">>}, url \in ReadmeTargets}
        \cup {MarkdownLink(<<"l">>, url) : url \in ReadmeTargets}
        \cup {HtmlImg(<<"<", "i", "m", "g", " ">>, <<>>, "\"", url, <<>>) :
                url \in ReadmeTargets}
        \cup {HtmlImg(<<"<", "I", "M", "G", " ">>, <<"x", " ">>, "'", url, <<" ", "y">>) :
                url \in ReadmeTargets}

\* The characters of a piece
Render(piece) ==
    CASE piece.kind = "word" -> piece.text
      [] piece.kind = "image" ->
            <<"!", "[">> \o piece.text \o <<"]", "(">> \o piece.url \o <<")">>
      [] piece.kind = "link" ->
            <<"[">> \o piece.text \o <<"]", "(">> \o piece.url \o <<")">>
      [] piece.kind = "img" ->
            piece.open \o piece.before \o <<"s", "r", "c", "=", piece.quote>>
                \o piece.url \o <<piece.quote>> \o piece.after \o <<">">>

RECURSIVE RenderAll(_)
RenderAll(pieces) ==
    IF pieces = <<>> THEN <<>> ELSE Render(Head(pieces)) \o RenderAll(Tail(pieces))

ReadmeDocs == UNION {[1..n -> ReadmePieces] : n \in 0..MaxDocLen}

InitReadme ==
    /\ gf = GfIdle
    /\ InitMainIdle
    /\ \E pieces \in ReadmeDocs :
            call = [pc |-> "args", pieces |-> pieces, markdown |-> RenderAll(pieces),
                    owner |-> <<"o">>, repo |-> <<"r">>,
                    defaultBranch |-> <<"m", "a", "i", "n">>,
                    result |-> <<>>]

\* result = rewriteReadmeUrls(markdown, owner, repo, defaultBranch)
ReadmeRewritten ==
    /\ call.pc = "args"
    /\ call' = [call EXCEPT !.pc = "rewritten",
                            !.result = rewriteReadmeUrls(call.markdown, call.owner,
                                                         call.repo, call.defaultBranch)]
    /\ UNCHANGED programVars

NextReadme == ReadmeRewritten

SpecReadme == InitReadme /\ [][NextReadme]_vars

\* ------------------------------------------------------------------------
\* createSlug on its own: every owner and repo of at most MaxNameLen
\* characters of NameChars.

MaxNameLen == 2

\* A letter, an upper-case letter, a digit, a hyphen and two characters
\* outside a-z0-9-.
NameChars == {"a", "B", "0", "-", ".", "_"}

NameStrings == UNION {[1..n -> NameChars] : n \in 0..MaxNameLen}

InitSlug ==
    /\ gf = GfIdle
    /\ InitMainIdle
    /\ \E owner, repo \in NameStrings :
            call = [pc |-> "args", owner |-> owner, repo |-> repo,
                    slug |-> <<>>, again |-> <<>>]

\* slug = createSlug(owner, repo)
SlugCreated ==
    /\ call.pc = "args"
    /\ call' = [call EXCEPT !.pc = "created",
                            !.slug = createSlug(call.owner, call.repo)]
    /\ UNCHANGED programVars

\* again = createSlug(owner, repo), a second call with the same arguments
SlugCreatedAgain ==
    /\ call.pc = "created"
    /\ call' = [call EXCEPT !.pc = "createdAgain",
                            !.again = createSlug(call.owner, call.repo)]
    /\ UNCHANGED programVars

NextSlug == SlugCreated \/ SlugCreatedAgain

SpecSlug == InitSlug /\ [][NextSlug]_vars

\* ------------------------------------------------------------------------
\* normalizeTags on its own: every topics and customTags of at most MaxTags
\* tags together, each tag of at most MaxTagLen characters of TagChars.

MaxTagLen == 3

MaxTags == 2

\* A letter, an upper-case letter, a hyphen and a character that is both
\* white space and outside a-z0-9-.
TagChars == {"a", "B", "-", " "}

TagStrings == UNION {[1..n -> TagChars] : n \in 0..MaxTagLen}

TagLists == UNION {[1..n -> TagStrings] : n \in 0..MaxTags}

InitTags ==
    /\ gf = GfIdle
    /\ InitMainIdle
    /\ \E list \in TagLists : \E n \in 0..Len(list) :
            call = [pc |-> "args",
                    topics |-> SubSeq(list, 1, n),
                    customTags |-> SubSeq(list, n + 1, Len(list)),
                    tags |-> <<>>, again |-> <<>>]

\* tags = normalizeTags(topics, customTags)
TagsNormalized ==
    /\ call.pc = "args"
    /\ call' = [call EXCEPT !.pc = "normalized",
                            !.tags = normalizeTags(call.topics, call.customTags)]
    /\ UNCHANGED programVars

\* again = normalizeTags(tags, [])
TagsNormalizedAgain ==
    /\ call.pc = "normalized"
    /\ call' = [call EXCEPT !.pc = "normalizedAgain",
                            !.again = normalizeTags(call.tags, <<>>)]
    /\ UNCHANGED programVars

NextTags == TagsNormalized \/ TagsNormalizedAgain

SpecTags == InitTags /\ [][NextTags]_vars

\* SpecRepo, every request and disk operation completing (as in SpecLive)
SpecRepoLive == InitRepo /\ [][NextRepo]_vars /\ (<>[]NextEnabled => []<><<TRUE>>_vars)

\* ------------------------------------------------------------------------
\* Claims about main and fetchRepo

Endpoints(calls) == [k \in 1..Len(calls) |-> calls[k].endpoint]

\* C1: in every reachable state at most 4 fetchRepo invocations are in
\* flight (started and not yet resolved), whatever the catalog size and the
\* order in which the invocations resolve.
C1_AtMostFourInFlight == Cardinality(InFlight) <= 4

C1_Witness ==
    /\ Cardinality(InFlight) = 4
    /\ Len(repos) > 4
    /\ task[Len(repos)].pc \in Running
    /\ \E i \in DOMAIN task : task[i].pc = "done"

\* C9: an entry with a stored Cache Record whose metadata request is
\* answered not modified makes the metadata call and no other, and resolves
\* to tags = normalizeTags(cached topics, custom tags) and the cached readme
\* verbatim; the stored record stays as it was.
C9_CacheReuse ==
    \A i \in DOMAIN task :
        (/\ task[i].pc = "done"
         /\ task[i].cached # NullObject
         /\ task[i].notModified) =>
            /\ Endpoints(task[i].calls) = <<"meta">>
            /\ task[i].result # NullObject
            /\ task[i].result.project.tags =
                    normalizeTags(task[i].cached.topics, repos[i].customTags)
            /\ task[i].result.readme = task[i].cached.readme
            /\ cache[i] = EntryFile(task[i].cached)

C9_Witness ==
    \E i \in DOMAIN task :
        /\ task[i].pc = "done"
        /\ task[i].notModified
        /\ task[i].cached # NullObject
        /\ task[i].cached.topics = << <<"B", "_", "t">>, <<"c">>, <<" ", "a", " ">> >>
        /\ repos[i].customTags = << <<"A", " ", "b">>, <<"c">> >>
        /\ task[i].result # NullObject
        /\ task[i].result.project.tags =
                << <<"a">>, <<"a", "-", "b">>, <<"b", "-", "t">>, <<"c">> >>

\* C10: on the fresh-data path a topics request that fails does not fail the
\* entry: the entry succeeds with an empty topics list.
C10_TopicsFailureTolerated ==
    \A i \in DOMAIN task :
        (task[i].pc = "done" /\ "topics" \in task[i].thrown) =>
            /\ task[i].result # NullObject
            /\ task[i].result.project.tags = normalizeTags(<<>>, repos[i].customTags)

\* The readme request of the invocation threw or returned no data.
ReadmeFailed(t) == "readme" \in t.thrown \cup t.absent

\* C11: on the fresh-data path a failure of the readme request (an error
\* thrown, or no data) never fails the entry: the invocation goes on to the
\* cache write with the placeholder readme "# <repo>\n\nNo README available."
\* and, the cache written, resolves to a record with that readme; the readme
\* request is never what the entry failed at.
C11_ReadmeFailureTolerated ==
    \A i \in DOMAIN task :
        ReadmeFailed(task[i]) =>
            LET placeholder == [text |-> <<"# ", repos[i].repo, "\n\nNo README available.">>]
            IN  /\ task[i].pc \in {"writeCache", "done"}
                /\ task[i].failedAt \notin {"readme", "topics", "meta"}
                /\ (task[i].pc = "writeCache" => task[i].readme = placeholder)
                /\ (task[i].pc = "done" /\ task[i].failedAt # "writeCache" =>
                        /\ task[i].result # NullObject
                        /\ task[i].result.readme = placeholder)

C11_Witness ==
    \E i \in DOMAIN task :
        /\ task[i].pc = "done"
        /\ "readme" \in task[i].thrown
        /\ task[i].result # NullObject
        /\ task[i].result.readme = [text |-> <<"# ", repos[i].repo, "\n\nNo README available.">>]
        /\ successCount = 1
        /\ failCount = 0

\* The entries whose invocation resolved to null.
FailedEntries == {i \in DOMAIN task : task[i].pc = "done" /\ task[i].result = NullObject}

\* C12: a failing entry never aborts the run.  An invocation that meets an
\* error resolves to null (it never rejects) and raises failCount by exactly
\* one, so failCount is the number of entries resolved to null; and every
\* entry of the catalog, whatever failed before it, is eventually started
\* and resolved, after which main() goes on past Promise.all.
C12_FailureDoesNotAbort ==
    /\ [](/\ failCount = Cardinality(FailedEntries)
          /\ \A i \in DOMAIN task :
                task[i].pc = "done" =>
                    (task[i].result = NullObject <=> task[i].failure # NoError))
    /\ <>(/\ \A i \in DOMAIN task : task[i].pc = "done"
          /\ mainPc \notin {"idle", "fetching"})

C12_Witness ==
    /\ task[1].pc = "done" /\ task[1].result = NullObject
    /\ task[2].pc = "done" /\ task[2].result = NullObject
    /\ task[Len(task)].pc = "done" /\ task[Len(task)].result # NullObject
    /\ failCount = 2
    /\ mainPc = "writeIndex"

\* C13: when main() runs to its end the exit status is non-zero exactly
\* when at least one catalog entry failed, whatever the profile fetch and
\* the contributions fetch came to; before that the process has no status.
C13_ExitStatus ==
    IF mainPc = "exited"
    THEN /\ run.exitCode \in {0, 1}
         /\ (run.exitCode # 0 <=> FailedEntries # {})
    ELSE run.exitCode = -1

\* A run that exits 0 although the profile fetch and the contributions
\* request both failed.
C13_Witness ==
    /\ mainPc = "exited"
    /\ run.exitCode = 0
    /\ FailedEntries = {}
    /\ run.profile = NullObject
    /\ run.contributions = NullObject
    /\ run.graphqlRequests = 1

\* C14: no write of projects.json and no write of a content file happens
\* while a catalog entry is still pending or in flight: a step that changes
\* the index file or puts a file into the content directory is taken only
\* when every fetchRepo invocation has resolved.
C14_WritesAfterAllResolved ==
    [][(disk'.index # disk.index \/ ~(disk'.content \subseteq disk.content))
            => \A i \in DOMAIN task : task[i].pc = "done"]_vars

\* The index of this run and a first content file are on disk.
C14_Witness ==
    /\ disk.index.generatedAt = "now"
    /\ run.written = 1
    /\ Cardinality(disk.content) = 1
    /\ \A i \in DOMAIN task : task[i].pc = "done"

\* projects.json as this run wrote it
IndexOfThisRun == disk.index.state = "written" /\ disk.index.generatedAt = "now"

\* C15: in the written projects index every featured project precedes every
\* non-featured one and, among projects of the same featured flag, the star
\* counts are non-increasing.
C15_IndexOrder ==
    IndexOfThisRun =>
        LET projects == disk.index.projects
        IN  \A j, k \in DOMAIN projects :
                j < k =>
                    /\ (projects[k].featured => projects[j].featured)
                    /\ (projects[j].featured = projects[k].featured
                            => projects[j].stars >= projects[k].stars)

\* A featured project of fewer stars is written before non-featured ones of
\* more stars, and these by stars: not the order of the catalog.
C15_Witness ==
    /\ IndexOfThisRun
    /\ LET projects == disk.index.projects
       IN  /\ Len(projects) >= 3
           /\ \E k \in 1..(Len(projects) - 2) :
                /\ projects[k].featured /\ ~projects[k + 1].featured
                /\ projects[k].stars < projects[k + 1].stars
                /\ projects[k + 1].stars > projects[k + 2].stars
                /\ projects[k].repo = repos[4].repo
                /\ projects[k + 1].repo = repos[5].repo
                /\ projects[k + 2].repo = repos[3].repo

\* The entries whose invocation resolved to a record.
SucceededEntries == {i \in DOMAIN task : task[i].pc = "done" /\ task[i].result # NullObject}

Range(seq) == {seq[k] : k \in DOMAIN seq}

\* C16: the written projects index holds exactly the entries whose fetchRepo
\* succeeded, each once, and no failed entry; its allTags is the sorted,
\* duplicate-free union of the tags of exactly those projects.
C16_IndexContent ==
    IndexOfThisRun =>
        LET projects == disk.index.projects
            allTags == disk.index.allTags
        IN  /\ Len(projects) = Cardinality(SucceededEntries)
            /\ \A i \in SucceededEntries :
                    Cardinality({k \in DOMAIN projects :
                                    projects[k] = task[i].result.project}) = 1
            /\ \A k \in DOMAIN projects :
                    \E i \in SucceededEntries : projects[k] = task[i].result.project
            /\ \A j, k \in DOMAIN allTags : j < k => StrLess(allTags[j], allTags[k])
            /\ Range(allTags) =
                    UNION {Range(task[i].result.project.tags) : i \in SucceededEntries}

\* An index of three projects, two entries left out as failed, and four tags
\* collected from projects of four and of three tags.
C16_Witness ==
    /\ IndexOfThisRun
    /\ Len(disk.index.projects) = 3
    /\ Cardinality(FailedEntries) = 2
    /\ Len(disk.index.allTags) = 4
    /\ \E k \in DOMAIN disk.index.projects : Len(disk.index.projects[k].tags) = 3
    /\ \E k \in DOMAIN disk.index.projects : Len(disk.index.projects[k].tags) = 4

\* The (owner, name) pairs of the configuration are pairwise distinct.
PairsDistinct ==
    \A i, j \in DOMAIN repos :
        i # j => <<repos[i].owner, repos[i].repo>> # <<repos[j].owner, repos[j].repo>>

\* C17: whenever the (owner, name) pairs of the configuration are pairwise
\* distinct, the slugs of the project records of a run are pairwise distinct.
C17_SlugsUnique ==
    PairsDistinct =>
        \A i, j \in SucceededEntries :
            i # j => task[i].result.project.slug # task[j].result.project.slug

\* C18: after a completed run the content directory holds exactly one
\* content file per successful entry and nothing else: as many files as
\* successful entries, each the file of one of them, none of a previous run.
C18_ContentDirectory ==
    mainPc = "exited" =>
        /\ Cardinality(disk.content) = Cardinality(SucceededEntries)
        /\ \A i \in SucceededEntries : ContentFile(task[i].result) \in disk.content
        /\ \A f \in disk.content :
                \E i \in SucceededEntries : f = ContentFile(task[i].result)

\* C19: the stored Cache Record of an entry is replaced only when the entry
\* took the fresh-data path and reached the cache write: a step that changes
\* the cache file of an entry is a step of that entry's invocation out of its
\* cache write, taken after a metadata answer that carried data; on the "not
\* modified" path and when the entry fails before the cache write the file
\* stays as it was.
C19_CacheReplacedOnlyOnFreshWrite ==
    [][\A i \in DOMAIN task :
            cache'[i] # cache[i] =>
                /\ task[i].pc = "writeCache"
                /\ ~task[i].notModified
                /\ task[i].thrown \cap {"meta", "topics"} = {}
                /\ Endpoints(task[i].calls) = <<"meta", "topics", "readme">>]_vars

\* A stored record replaced by a fresh one; before, whenever the entry was
\* answered "not modified" or failed early, the file was left alone.
C19_Witness ==
    \E i \in DOMAIN task :
        /\ task[i].pc = "done"
        /\ task[i].cached # NullObject
        /\ ~task[i].reused
        /\ task[i].result # NullObject
        /\ cache[i].state = "entry"
        /\ cache[i].entry # task[i].cached
        /\ cache[i].entry.etag = "e2"

\* The entries resolved on the "not modified" reuse path: a readable Cache
\* Record and a metadata answer "not modified".
ReusedEntries ==
    {i \in DOMAIN task :
        task[i].pc = "done" /\ task[i].notModified /\ task[i].cached # NullObject}

\* C20: cacheHitCount counts the entries that took the "not modified" reuse
\* path and no other, throughout the run and so at its end; an entry that
\* fetched fresh data is not a cache hit, also when a Cache Record existed
\* and the fresh data is identical to it.
C20_CacheHitCount ==
    /\ cacheHitCount = Cardinality(ReusedEntries)
    /\ \A i \in ReusedEntries : Endpoints(task[i].calls) = <<"meta">>

\* At the end of a run: one hit, beside an entry whose fresh data equals the
\* Cache Record it had.
C20_Witness ==
    /\ mainPc = "exited"
    /\ cacheHitCount = 1
    /\ \E i \in DOMAIN task :
        /\ i \notin ReusedEntries
        /\ task[i].cached # NullObject
        /\ task[i].result # NullObject
        /\ Endpoints(task[i].calls) = <<"meta", "topics", "readme">>
        /\ cache[i] = EntryFile(task[i].cached)

\* ------------------------------------------------------------------------
\* Claims about the profile and the contributions

\* The githubFetch call of fetchProfileReadme threw (404, rate limit,
\* retries exhausted, any error).
ProfileFetchFailed == run.profileOutcome = "throw"

\* The GraphQL request was sent and failed: an HTTP error status, an errors
\* member in the answer, or fetch() rejecting.
ContributionsFetchFailed == run.graphqlAnswer.kind \in {"httpError", "errors", "rejected"}

\* main() has printed its summary and come to its end.
SummaryReached == mainPc = "exited"

\* C21: a failure of the profile fetch or of the contributions fetch is
\* recorded as an absent (null) record; profile.json and contributions.json
\* are still both written, with that record, and the run goes on to its
\* summary.
C21_ProfileAndContributionsFailSoft ==
    /\ [](/\ (ProfileFetchFailed => run.profile = NullObject)
          /\ (ContributionsFetchFailed => run.contributions = NullObject)
          /\ (SummaryReached =>
                /\ disk.profile = [state |-> "written", profile |-> run.profile,
                                   fetchedAt |-> "now"]
                /\ disk.contributions = [state |-> "written",
                                         contributions |-> run.contributions]))
    /\ (ProfileFetchFailed ~> SummaryReached)
    /\ (ContributionsFetchFailed ~> SummaryReached)

\* Both fetches failed; both files hold null and the run has ended.
C21_Witness ==
    /\ SummaryReached
    /\ ProfileFetchFailed
    /\ ContributionsFetchFailed
    /\ disk.profile.state = "written" /\ disk.profile.profile = NullObject
    /\ disk.contributions.state = "written"
    /\ disk.contributions.contributions = NullObject

\* C22: with no GITHUB_TOKEN configured fetchContributions sends no request
\* and returns the absent record; the run is not failed by it (its exit
\* status still tells only whether an entry failed) and contributions.json
\* is written as null.
C22_NoTokenSkipsContributions ==
    ~env.token =>
        /\ run.graphqlRequests = 0
        /\ run.graphqlAnswer.kind = "none"
        /\ run.contributions = NullObject
        /\ (mainPc = "exited" =>
                /\ disk.contributions = [state |-> "written", contributions |-> NullObject]
                /\ (run.exitCode = 0 <=> FailedEntries = {}))

\* A run without token that ends with status 0 and contributions.json null.
C22_Witness ==
    /\ ~env.token
    /\ mainPc = "exited"
    /\ run.exitCode = 0
    /\ run.graphqlRequests = 0
    /\ disk.contributions.state = "written"
    /\ disk.contributions.contributions = NullObject
    /\ run.profile # NullObject

\* C23: every request and disk operation completing, every scheduled entry
\* eventually resolves and the run eventually reaches its summary with all
\* entries counted; no entry is cancelled or left unstarted because another
\* failed: while entries wait the pool is full, an entry not yet started is
\* in the queue, and a resolved entry stays resolved.
C23_RunDrains ==
    /\ \A i \in 1..NumRepos : <>(task[i].pc = "done")
    /\ <>(SummaryReached /\ successCount + failCount = NumRepos)
    /\ [](mainPc = "fetching" =>
            /\ (queue # <<>> => Cardinality(InFlight) = CONCURRENCY_LIMIT)
            /\ \A i \in DOMAIN task :
                    task[i].pc = "pending" => \E k \in DOMAIN queue : queue[k] = i)
    /\ [][\A i \in DOMAIN task : task[i].pc = "done" => task'[i] = task[i]]_vars

\* The run has ended although the four entries started first all failed;
\* the fifth was started after them and succeeded.
C23_Witness ==
    /\ SummaryReached
    /\ NumRepos > CONCURRENCY_LIMIT
    /\ \A i \in 1..CONCURRENCY_LIMIT : task[i].result = NullObject
    /\ task[NumRepos].result # NullObject
    /\ failCount = CONCURRENCY_LIMIT

\* ------------------------------------------------------------------------
\* Claims about the metadata result and the cache read

\* C25: an entry whose metadata result carries no data and is not a usable
\* "not modified" reuse fails with the generic error "No data received",
\* after the metadata call alone; in particular a "not modified" answer for
\* an entry with no readable Cache Record fails the entry and writes no
\* cache: the file stays absent or unreadable.
C25_NoDataFailsEntry ==
    \A i \in DOMAIN task :
        (/\ task[i].pc = "done"
         /\ "meta" \in task[i].absent
         /\ ~(task[i].notModified /\ task[i].cached # NullObject)) =>
            /\ task[i].result = NullObject
            /\ task[i].failure = <<"No data received">>
            /\ task[i].failedAt = "meta"
            /\ Endpoints(task[i].calls) = <<"meta">>
            /\ IF task[i].cached = NullObject
               THEN cache[i].state \in {"absent", "corrupt"}
               ELSE cache[i] = EntryFile(task[i].cached)

\* "Not modified" answered to an entry whose cache file is unreadable.
C25_Witness ==
    \E i \in DOMAIN task :
        /\ task[i].pc = "done"
        /\ task[i].notModified
        /\ task[i].cached = NullObject
        /\ cache[i] = CorruptFile
        /\ task[i].failure = <<"No data received">>
        /\ failCount = 1

\* C26: a cache file that is missing, unreadable or unparsable is a cold
\* start: readCache gives the absent record without raising, the metadata
\* request goes out with no conditional token, and the entry is never
\* failed by the cache read.
C26_UnreadableCacheIsColdStart ==
    \A i \in DOMAIN task :
        /\ task[i].failedAt # "readCache"
        /\ (task[i].pc = "meta" /\ cache[i].state \in {"absent", "corrupt"}) =>
                /\ task[i].cached = NullObject
                /\ task[i].failure = NoError
                /\ task[i].calls = <<CallRecord("meta", Undefined)>>

\* An unparsable file was read and the unconditional metadata request is out.
C26_Witness ==
    \E i \in DOMAIN task :
        /\ task[i].pc = "meta"
        /\ cache[i] = CorruptFile
        /\ task[i].cached = NullObject
        /\ task[i].calls = <<CallRecord("meta", Undefined)>>

\* ------------------------------------------------------------------------
\* Claims about the contributions record

RECURSIVE SumCounts(_)
SumCounts(days) ==
    IF days = <<>> THEN 0 ELSE Head(days).count + SumCounts(Tail(days))

RECURSIVE SumBuckets(_)
SumBuckets(days) ==
    IF days = <<>> THEN 0
    ELSE Head(days).contributionCount + SumBuckets(Tail(days))

\* The level the record must carry for a bucket's level name.
ExpectedLevel(name) ==
    IF name = "NONE" THEN 0
    ELSE IF name = "FIRST_QUARTILE" THEN 1
    ELSE IF name = "SECOND_QUARTILE" THEN 2
    ELSE IF name = "THIRD_QUARTILE" THEN 3
    ELSE IF name = "FOURTH_QUARTILE" THEN 4
    ELSE 0

\* The daily series of the record follows the calendar: one tuple per day
\* bucket, in calendar order, with the bucket's date and count and a level
\* in 0..4.
SeriesFollowsCalendar(record, calendar) ==
    LET days == Flatten(calendar.weeks)
    IN  /\ Len(record.contributions) = Len(days)
        /\ \A k \in 1..Len(days) :
              /\ record.contributions[k].date = days[k].date
              /\ record.contributions[k].count = days[k].contributionCount
              /\ record.contributions[k].level \in 0..4
              /\ record.contributions[k].level = ExpectedLevel(days[k].contributionLevel)

C28_NormalizeTagsIdempotent ==
    call.pc = "normalizedAgain" => call.again = call.tags

\* Two tags that normalizing changed and reordered were normalized again.
C28_Witness ==
    /\ call.pc = "normalizedAgain"
    /\ call.topics = << <<"B", " ", "a">> >>
    /\ call.customTags = << <<"-", "a", "-">> >>
    /\ call.tags = << <<"a">>, <<"b", "-", "a">> >>
    /\ call.again = call.tags

\* a-z, 0-9 and the hyphen
TagAlphabet ==
    {"a", "b", "c", "d", "e", "f", "g", "h", "i", "j", "k", "l", "m", "n", "o",
     "p", "q", "r", "s", "t", "u", "v", "w", "x", "y", "z",
     "0", "1", "2", "3", "4", "5", "6", "7", "8", "9", "-"}

\* C29: the output of normalizeTags is sorted ascending and holds no
\* duplicate and no empty element; every element is made of a-z, 0-9 and
\* '-' only and neither begins nor ends with a hyphen.
C29_NormalizeTagsOutput ==
    call.pc = "normalized" =>
        /\ \A j, k \in DOMAIN call.tags : j < k => StrLess(call.tags[j], call.tags[k])
        /\ \A j, k \in DOMAIN call.tags : j # k => call.tags[j] # call.tags[k]
        /\ \A k \in DOMAIN call.tags :
              LET tag == call.tags[k]
              IN  /\ tag # <<>>
                  /\ \A n \in DOMAIN tag : tag[n] \in TagAlphabet
                  /\ tag[1] # "-"
                  /\ tag[Len(tag)] # "-"

\* Tags given in descending order, with upper case, white space and hyphens
\* at the edges, came out as two sorted tags.
C29_Witness ==
    /\ call.pc = "normalized"
    /\ call.topics = << <<"-", "B", " ">>, <<"a", " ", "-">> >>
    /\ call.customTags = <<>>
    /\ call.tags = << <<"a">>, <<"b">> >>

\* ------------------------------------------------------------------------
\* Claims about rewriteReadmeUrls (SpecReadme)

AsciiLetters ==
    {"a", "b", "c", "d", "e", "f", "g", "h", "i", "j", "k", "l", "m", "n", "o",
     "p", "q", "r", "s", "t", "u", "v", "w", "x", "y", "z"}

\* url begins with a scheme: letters, then "://"
SchemePrefixed(url) ==
    \E n \in 1..Len(url) :
        /\ \A k \in 1..n : url[k] \in AsciiLetters
        /\ StartsWith(slice(url, n), <<":", "/", "/">>)

\* An absolute reference: scheme-prefixed, protocol-relative, fragment-only
\* or mail-to.
AbsoluteReference(url) ==
    \/ SchemePrefixed(url)
    \/ StartsWith(url, <<"/", "/">>)
    \/ StartsWith(url, <<"#">>)
    \/ StartsWith(url, <<"m", "a", "i", "l", "t", "o", ":">>)

\* The targets of the images and links of the text
TargetsOf(pieces) ==
    {pieces[k].url : k \in {n \in DOMAIN pieces : pieces[n].kind # "word"}}

\* C30: rewriteReadmeUrls leaves every absolute reference untouched,
\* absolute meaning scheme-prefixed, protocol-relative, fragment-only or
\* mail-to: a text whose image and link targets are all absolute is
\* returned unchanged.
C30_AbsoluteReferencesUntouched ==
    (/\ call.pc = "rewritten"
     /\ \A url \in TargetsOf(call.pieces) : AbsoluteReference(url)) =>
        call.result = call.markdown

\* The part of a target from its query string or fragment on
QueryOrFragment(url) ==
    LET k == IndexFrom(url, {"?", "#"}, 1)
    IN  IF k = 0 THEN <<>> ELSE SubSeq(url, k, Len(url))

\* The path of a target without a leading "./" or "/"
PathWithoutPrefix(url) ==
    LET path == SubSeq(url, 1, Len(url) - Len(QueryOrFragment(url)))
    IN  IF Len(path) >= 2 /\ path[1] = "." /\ path[2] = "/" THEN SubSeq(path, 3, Len(path))
        ELSE IF Len(path) >= 1 /\ path[1] = "/" THEN SubSeq(path, 2, Len(path))
        ELSE path

\* base + "/" + the path without its leading prefix + the query string or
\* fragment as it was
ExpectedTarget(url, base) ==
    base \o <<"/">> \o PathWithoutPrefix(url) \o QueryOrFragment(url)

\* A markdown image or link as it must come out: a relative target
\* rewritten on the raw-content base (image) or the blob base (link).
ExpectedPiece(piece, owner, repo, branch) ==
    IF AbsoluteReference(piece.url) THEN piece
    ELSE [piece EXCEPT !.url =
            ExpectedTarget(@, IF piece.kind = "image"
                              THEN <<"h", "t", "t", "p", "s", ":", "/", "/", "r", "a", "w", ".",
                                     "g", "i", "t", "h", "u", "b", "u", "s", "e", "r", "c", "o",
                                     "n", "t", "e", "n", "t", ".", "c", "o", "m", "/">>
                                       \o owner \o <<"/">> \o repo \o <<"/">> \o branch
                              ELSE <<"h", "t", "t", "p", "s", ":", "/", "/", "g", "i", "t", "h",
                                     "u", "b", ".", "c", "o", "m", "/">>
                                       \o owner \o <<"/">> \o repo
                                       \o <<"/", "b", "l", "o", "b", "/">> \o branch)]

\* The text is made of markdown images and links only, none of them with a
\* scheme isAbsolute does not know.
MarkdownOnly(pieces) ==
    \A k \in DOMAIN pieces :
        /\ pieces[k].kind \in {"image", "link"}
        /\ (AbsoluteReference(pieces[k].url) => isAbsolute(pieces[k].url))

\* C31: every relative markdown image or link target, with or without a
\* leading "./" or "/", comes out as base + "/" + the path with that prefix
\* removed + the original query string or fragment, base being the
\* raw-content URL for an image and the blob URL for a link.
C31_RelativeTargetsRewritten ==
    (call.pc = "rewritten" /\ MarkdownOnly(call.pieces)) =>
        call.result =
            RenderAll([k \in DOMAIN call.pieces |->
                         ExpectedPiece(call.pieces[k], call.owner, call.repo,
                                       call.defaultBranch)])

\* ------------------------------------------------------------------------
\* Claims about createSlug (SpecSlug)

\* C32: createSlug is deterministic (a second call with the same owner and
\* repo gives the same slug) and its output is non-empty and made of a-z,
\* 0-9 and '-' only, for every pair of input strings.
C32_SlugWellFormed ==
    /\ call.pc \in {"created", "createdAgain"} =>
            /\ call.slug # <<>>
            /\ \A k \in DOMAIN call.slug : call.slug[k] \in TagAlphabet
    /\ call.pc = "createdAgain" => call.again = call.slug

\* An owner and a repo with upper case and characters outside a-z0-9- gave
\* the same well-formed slug twice; so did the empty owner and repo.
C32_Witness ==
    /\ call.pc = "createdAgain"
    /\ \/ /\ call.owner = <<"B", ".">>
          /\ call.repo = <<"_", "0">>
          /\ call.slug = <<"b", "-", "-", "-", "0">>
       \/ /\ call.owner = <<>>
          /\ call.repo = <<>>
          /\ call.slug = <<"-">>
    /\ call.again = call.slug

\* ------------------------------------------------------------------------
\* A further claim about githubFetch (SpecFetch)

\* The message texts of the model in which "Rate limit" or "Not found" occurs
NeedleTexts == {"Rate limit exceeded", "Not found: ", "Not found"}

\* The message has a part that contains "Rate limit" or "Not found"
MentionsNeedle(message) == \E k \in DOMAIN message : message[k] \in NeedleTexts

C35_NetworkWitness ==
    /\ gf.pc = "thrown"
    /\ Len(gf.log) = 1
    /\ gf.log[1].status = 0 /\ gf.log[1].statusText = "Not found"
    /\ gf.requests = 1

\* ------------------------------------------------------------------------
\* Claims about the counters, the index and the cache across runs

\* C33: in every interleaving of the fetchRepo invocations no increment is
\* lost: throughout the run successCount and failCount count the entries
\* resolved with a result and with null, and cacheHitCount <= successCount;
\* so when the summary is printed successCount + failCount is the number of
\* catalog entries and successCount the number of projects in the index.
C33_CountersExact ==
    /\ successCount = Cardinality(SucceededEntries)
    /\ failCount = Cardinality(FailedEntries)
    /\ cacheHitCount <= successCount
    /\ SummaryReached =>
            /\ successCount + failCount = Len(repos)
            /\ IndexOfThisRun
            /\ successCount = Len(disk.index.projects)

\* The summary of a run in which entries succeeded (one from the cache) and
\* entries failed while others were in flight.
C33_Witness ==
    /\ SummaryReached
    /\ successCount >= 2
    /\ failCount >= 1
    /\ cacheHitCount >= 1
    /\ successCount + failCount = NumRepos

\* The catalog entry a project of the index was built from
EntryOf(project) ==
    CHOOSE i \in DOMAIN repos :
        repos[i].owner = project.owner /\ repos[i].repo = project.repo

\* Two projects the comparator does not tell apart
Tied(a, b) == a.featured = b.featured /\ a.stars = b.stars

\* C34: the written index is a function of the configuration order and of
\* the per-entry results alone: it holds the results of the succeeded
\* entries, featured first and then by stars, projects that tie on both in
\* the order of the catalog, and allTags computed from them; the order in
\* which the invocations resolved has no part in it.
C34_IndexIndependentOfCompletionOrder ==
    IndexOfThisRun =>
        LET projects == disk.index.projects
        IN  /\ Len(projects) = Cardinality(SucceededEntries)
            /\ \A k \in DOMAIN projects :
                  /\ EntryOf(projects[k]) \in SucceededEntries
                  /\ projects[k] = task[EntryOf(projects[k])].result.project
            /\ \A j, k \in DOMAIN projects :
                  j < k =>
                    \/ projects[j].featured /\ ~projects[k].featured
                    \/ /\ projects[j].featured = projects[k].featured
                       /\ projects[j].stars > projects[k].stars
                    \/ /\ Tied(projects[j], projects[k])
                       /\ EntryOf(projects[j]) < EntryOf(projects[k])
            /\ disk.index.allTags = AllTags(projects)

\* Two projects tie; the one later in the catalog resolved first, and the
\* index still has them in the order of the catalog.
C34_Witness ==
    /\ IndexOfThisRun
    /\ Len(disk.index.projects) = 2
    /\ Tied(disk.index.projects[1], disk.index.projects[2])
    /\ EntryOf(disk.index.projects[1]) < EntryOf(disk.index.projects[2])
    /\ task[EntryOf(disk.index.projects[1])].resolvedAs
            > task[EntryOf(disk.index.projects[2])].resolvedAs

\* C36: when the readme request fails on the fresh-data path, the Cache
\* Record written for the entry holds the placeholder readme together with
\* the etag of the metadata response; and in the next run, when the metadata
\* request is answered "not modified", the entry returns that placeholder
\* after the metadata request alone: the readme is not requested again.
C36_PlaceholderPersistedAndReused ==
    \A i \in DOMAIN task :
        /\ (/\ task[i].pc = "done"
            /\ "readme" \in task[i].thrown
            /\ task[i].result # NullObject) =>
                /\ cache[i].state = "entry"
                /\ cache[i].entry.readme = PlaceholderReadme(repos[i].repo)
                /\ cache[i].entry.etag = task[i].etag
                /\ task[i].result.readme = PlaceholderReadme(repos[i].repo)
        /\ (/\ run.number > 1
            /\ run.previous[i].wroteCache
            /\ run.previous[i].readmeThrown
            /\ task[i].pc = "done"
            /\ task[i].notModified) =>
                /\ task[i].cached # NullObject
                /\ task[i].cached.etag = run.previous[i].etag
                /\ task[i].calls = <<CallRecord("meta", run.previous[i].etag)>>
                /\ task[i].result # NullObject
                /\ task[i].result.readme = PlaceholderReadme(repos[i].repo)
                /\ cache[i].entry.readme = PlaceholderReadme(repos[i].repo)

\* The second run of an entry that had no cache at first: the first run's
\* readme request threw, the second run sent the etag the first had stored,
\* was answered "not modified" and returned the placeholder.
C36_Witness ==
    /\ run.number = 2
    /\ run.previous[1].wroteCache
    /\ run.previous[1].readmeThrown
    /\ run.previous[1].etag = "e1"
    /\ task[1].pc = "done"
    /\ task[1].notModified
    /\ task[1].calls = <<CallRecord("meta", "e1")>>
    /\ task[1].result.readme = PlaceholderReadme(repos[1].repo)
    /\ cacheHitCount = 1

\* The etags a metadata response can hand back: the ETag header, or none.
ResponseEtags == {r.etag : r \in OkResponses} \cup {Undefined}

\* C37: within fetchRepo only the metadata request carries an etag, and it
\* does so exactly when readCache returned a record that holds one; the
\* topics and readme requests never carry one; and the etag in a Cache
\* Record written by this run is the one the metadata call of this run
\* returned, none when the response had none.
C37_OnlyMetadataConditional ==
    \A i \in DOMAIN task :
        LET t == task[i] IN
        /\ \A k \in 1..Len(t.calls) :
            /\ (k = 1) = (t.calls[k].endpoint = "meta")
            /\ k > 1 => t.calls[k].ifNoneMatch = Undefined
        /\ Len(t.calls) > 0 =>
            /\ (t.calls[1].ifNoneMatch # Undefined) =
                    (t.cached # NullObject /\ t.cached.etag # Undefined)
            /\ t.calls[1].ifNoneMatch # Undefined =>
                    t.calls[1].ifNoneMatch = t.cached.etag
        /\ (t.pc = "done" /\ t.result # NullObject /\ ~t.reused) =>
            /\ Endpoints(t.calls) = <<"meta", "topics", "readme">>
            /\ cache[i].state = "entry"
            /\ cache[i].entry.etag = t.etag
            /\ t.etag \in ResponseEtags

\* A fresh record written after a conditional metadata request: the record
\* read held one etag, the metadata response of this run had none, and the
\* record written holds none.
C37_Witness ==
    /\ task[1].pc = "done"
    /\ ~task[1].reused
    /\ task[1].result # NullObject
    /\ task[1].cached # NullObject
    /\ task[1].cached.etag = "e2"
    /\ task[1].calls = <<[endpoint |-> "meta", ifNoneMatch |-> "e2"],
                         [endpoint |-> "topics", ifNoneMatch |-> Undefined],
                         [endpoint |-> "readme", ifNoneMatch |-> Undefined]>>
    /\ task[1].etag = Undefined
    /\ cache[1].entry.etag = Undefined

\* The content files an index names that are on disk
NamedFilesPresent(index, dir) ==
    {f \in dir : \E k \in 1..Len(index.projects) : index.projects[k].slug = f.name}

\* C38: the content directory is emptied before the first entry is fetched
\* and stays empty until every entry has resolved and the index has been
\* written; so throughout the fetch phase the index of the previous run is
\* still on disk and none of the content files it names exists.
C38_StaleIndexDuringFetch ==
    /\ mainPc \in {"fetching", "writeIndex"} => disk.content = {}
    /\ mainPc = "fetching" =>
        /\ disk.index = PreviousDisk(repos).index
        /\ Len(disk.index.projects) > 0
        /\ NamedFilesPresent(disk.index, disk.content) = {}
    /\ mainPc = "idle" => \A i \in DOMAIN task : task[i].pc = "pending"
    /\ (mainPc # "idle" /\ disk.content # {}) =>
        /\ PromiseAllResolved(task)
        /\ disk.index.state = "written"
        /\ disk.index.generatedAt = "now"
        /\ disk.index.projects = ProjectsOf(run.successfulResults)

\* In the middle of the fetch phase: one entry has resolved, others are in
\* flight, the index on disk is the previous run's and names two projects,
\* and the content directory is empty.
C38_Witness ==
    /\ mainPc = "fetching"
    /\ \E i \in DOMAIN task : task[i].pc = "done" /\ task[i].result # NullObject
    /\ \E i \in DOMAIN task : task[i].pc \in Running
    /\ disk.index.state = "written"
    /\ disk.index.generatedAt = "before"
    /\ Len(disk.index.projects) = 2
    /\ disk.content = {}

====
